---- MODULE Spec2Model ----
\* CalDAV synchronisation of the project-manager desktop app:
\*   src/main.js   - scheduler, reconciliation run, IPC handlers
\*   src/caldav.js - discovery, fetch/put/delete, iCalendar codec
\*   src/db.js     - the local store
\*
\* The specifications share the variables below; each one lets a part of the
\* environment act.
\*   Spec     - the pull side: timers and caldav:sync-now start runs, which may
\*              overlap; other clients change the remote calendar; the user
\*              creates local tasks.
\*   SpecPush - the push side: the user creates, edits and pushes tasks while
\*              a run is under way; the server answers every request.
\*   SpecDisc - one call of discoverCalendarUrl against an arbitrary server.
\*   SpecTwice - discoverCalendarUrl called repeatedly against a server whose
\*              answer to each request is fixed.
\*   SpecFetch - runs whose REPORT the server may answer with any status.
\*   SpecCfg  - one run, push or delete at a time while caldav:save-config
\*              changes the configuration.
\*   SpecSched - the scheduler: synchronisation is switched on and off, the
\*              window is closed and opened again, runs fail or succeed.
\*   SpecHang - SpecFetch with the fairness of the event loop, for liveness.
\*   SpecMalformed - runs over a collection that holds malformed resources.
\*   SpecCodec - generateICS, parseICS and the merge of one event, over texts
\*              with the characters the codec escapes.
\*   SpecXml  - the body of one PROPFIND answer through the scanning of
\*              getCalendarHomeFromPrincipal or firstCalendarCollection.
\*   SpecAgain - runs one after another over a remote set that stays as it is
\*              once the first run has started; a uid may stand in two entries.
\*   SpecUndelete - runs one after another while the user deletes tasks.
\*   SpecRepush - runs and pushes one at a time over a collection that holds
\*              resources of other clients.
\*
\* Strings that the code inspects character by character (dates, etags) are
\* sequences of one-character strings; other strings are atoms.
EXTENDS Integers, Sequences, FiniteSets, Bags, TLC

VARIABLES
  config,      \* the caldav section of config.json (main.js loadConfig/saveConfig)
  tasks,       \* rows of the tasks table (db.js)
  nextId,      \* next AUTOINCREMENT id of the tasks table
  remote,      \* the remote collection: uid -> resource
  runs,        \* the executions of runCalDAVSync in flight (a bag of their states)
  push,        \* the caldav:push-task call in flight
  lastSync,    \* lastSyncTime / lastSyncError (main.js:168-169)
  mergeLog,    \* history: what the merge loop did, event by event, if the latest step was one
  notified,    \* history: the notification the latest step sent to the window, if any
  pushedVer,   \* history: task id -> remote version its latest completed push wrote
  disc,        \* one discoverCalendarUrl call (SpecDisc)
  del,         \* the caldav:delete-task call in flight
  calDavTimer, \* main.js:166: whether the interval timer is set
  timeouts,    \* the initial-delay timers of main.js:182 that have not fired yet
  mainWindow,  \* main.js:60: the window, "open" or "destroyed", or "quit" once the app has quit
  codec        \* one event on its way through generateICS, parseICS and the merge (SpecCodec),
               \* or one PROPFIND answer on its way through the scanning of its body (SpecXml)

\* The timers and the window.
appVars == <<calDavTimer, timeouts, mainWindow>>

syncVars ==
  <<config, tasks, nextId, remote, runs, push, lastSync, mergeLog, notified, pushedVer, del, appVars,
    codec>>

vars ==
  <<config, tasks, nextId, remote, runs, push, lastSync, mergeLog, notified, pushedVer, disc, del,
    appVars, codec>>

-----------------------------------------------------------------------------
\* Bounds of the model.

\* Rows the tasks table may hold.
MaxTasks == 2

\* Executions of runCalDAVSync that may be in flight together.
MaxRuns == 2

\* Versions (etags) the server hands out per resource.
MaxVer == 2

\* Initial-delay timers that may be pending together.
MaxTimeouts == 2

-----------------------------------------------------------------------------
\* Character strings.

Digits == {"0", "1", "2", "3", "4", "5", "6", "7", "8", "9"}

\* SQLite's BINARY collation orders text by byte value.
CharCode(c) ==
  CASE c = "-" -> 45
    [] c \in Digits -> 48 + CHOOSE n \in 0..9 : ToString(n) = c
    [] c = "T" -> 84
    [] c = "Z" -> 90
    [] OTHER -> 120

RECURSIVE TextLess(_, _)
TextLess(a, b) ==
  IF b = <<>> THEN FALSE
  ELSE IF a = <<>> THEN TRUE
  ELSE IF CharCode(Head(a)) # CharCode(Head(b)) THEN CharCode(Head(a)) < CharCode(Head(b))
  ELSE TextLess(Tail(a), Tail(b))

\* SQL NULL / JS null in the date column.
NullDate == <<"null">>

\* String.prototype.replace(/-/g, '')
RECURSIVE StripDashes(_)
StripDashes(s) ==
  IF s = <<>> THEN <<>>
  ELSE IF Head(s) = "-" THEN StripDashes(Tail(s))
  ELSE <<Head(s)>> \o StripDashes(Tail(s))

\* caldav.js parseDTSTART: YYYYMMDD or YYYYMMDDTHHmmss[Z] gives YYYY-MM-DD, else null.
ParseDTSTART(val) ==
  IF val = <<>> THEN NullDate
  ELSE IF Len(val) = 8 /\ \A i \in 1..8 : val[i] \in Digits
    THEN SubSeq(val, 1, 4) \o <<"-">> \o SubSeq(val, 5, 6) \o <<"-">> \o SubSeq(val, 7, 8)
  ELSE IF Len(val) >= 15 /\ val[9] = "T"
    THEN SubSeq(val, 1, 4) \o <<"-">> \o SubSeq(val, 5, 6) \o <<"-">> \o SubSeq(val, 7, 8)
  ELSE NullDate

\* The version token the server assigns to a resource.
VerToken(v) == <<ToString(v)>>

\* An entity tag as servers write it, in the ETag header and in getetag: quoted.
Quoted(tok) == <<"\"">> \o tok \o <<"\"">>

\* caldav.js parseMultiStatus, the getetag capture "?([^<"]*)"? : the text
\* between optional quotes.
RECURSIVE UpToQuote(_)
UpToQuote(s) ==
  IF s = <<>> \/ Head(s) = "\"" THEN <<>>
  ELSE <<Head(s)>> \o UpToQuote(Tail(s))

ParseGetEtag(text) ==
  IF text # <<>> /\ Head(text) = "\"" THEN UpToQuote(Tail(text)) ELSE UpToQuote(text)

-----------------------------------------------------------------------------
\* Data of the model.

D_2024_02_01 == <<"2", "0", "2", "4", "-", "0", "2", "-", "0", "1">>

D_2024_01_10 == <<"2", "0", "2", "4", "-", "0", "1", "-", "1", "0">>

\* toDate(new Date()): the day on which generateICS runs.
Today == <<"2", "0", "2", "4", "-", "0", "3", "-", "0", "5">>

\* What the task dialog writes (renderer/app.js taskData): the mapped fields.
UserContents ==
  { [title |-> "T1", description |-> "", date |-> D_2024_02_01, status |-> "pending"],
    [title |-> "T2", description |-> "x", date |-> D_2024_01_10, status |-> "done"] }

\* Events other clients store on the server, as parseICS returns them: an absent
\* property reads as "" (every use in syncRemoteEvent treats the two alike).
\* blocks tells which VEVENT blocks the text has: one with a UID ("uid"), none
\* ("none"), one without a UID ("nouid"), or one without and then one with
\* ("nouid+uid").
EvA ==
  [ SUMMARY |-> "A", DESCRIPTION |-> "",
    DTSTART |-> <<"2", "0", "2", "4", "0", "1", "1", "5">>, STATUS |-> "CANCELLED",
    blocks |-> "uid" ]

EvB ==
  [ SUMMARY |-> "", DESCRIPTION |-> "d",
    DTSTART |-> <<"2", "0", "2", "4", "0", "1", "1", "6", "T", "0", "9", "0", "0", "0", "0", "Z">>,
    STATUS |-> "", blocks |-> "uid" ]

EvContents == {EvA, EvB}

\* Texts of other clients from which parseICS gets no event, or not every block.
MalformedContents ==
  {[EvA EXCEPT !.blocks = "none"], [EvA EXCEPT !.blocks = "nouid"], [EvB EXCEPT !.blocks = "nouid+uid"]}

\* A resource whose event has the UID u1 whatever the href of the resource.
SharedUidContents == {[EvB EXCEPT !.blocks = "u1"]}

\* UIDs of events created by other clients.
ForeignUids == {"u1"}

\* main.js:345  `pm-task-${task.id}`
PmUid(id) == "pm-task-" \o ToString(id)

Ids == 1..MaxTasks

Uids == ForeignUids \cup {PmUid(i) : i \in Ids}

\* Fixed order in which the server lists its resources in a REPORT answer.
UidOrder == <<"u1">> \o [i \in Ids |-> PmUid(i)]

NoEv == [SUMMARY |-> "", DESCRIPTION |-> "", DTSTART |-> <<>>, STATUS |-> "", blocks |-> "uid"]

Absent(v) == [present |-> FALSE, ver |-> v, ev |-> NoEv]

\* The values of serverHost the settings dialog may save.
ConfigHosts == {"h0", "h1"}

\* The collection URL that discovery returns for a server (SpecDisc models how).
DiscoveredUrl(serverHost) == "https://" \o serverHost \o "/cal/"

\* A collection URL set as calendarUrlOverride.
OverrideUrl == "https://h9/shared/"

IdlePush ==
  [ pc |-> "idle", host |-> "", url |-> "", via |-> "", task |-> 0, uid |-> "", ev |-> NoEv,
    ok |-> FALSE, etag |-> <<>>, ver |-> 0 ]

\* status: history, the status of the answer to the latest DELETE.
IdleDelete == [pc |-> "idle", host |-> "", url |-> "", via |-> "", uid |-> "", status |-> 0]

\* main.js:195, 334, 385: calendarUrlOverride || calendarUrl
ResolvedUrl_CacheFirst(cfg) ==
  IF cfg.calendarUrl # "" THEN cfg.calendarUrl ELSE cfg.calendarUrlOverride

ResolvedUrl(cfg) ==
  IF cfg.calendarUrlOverride # "" THEN cfg.calendarUrlOverride ELSE cfg.calendarUrl

\* Where a call has its collection URL from.
Via(cfg) ==
  IF ResolvedUrl(cfg) = "" THEN "discovery"
  ELSE IF ResolvedUrl(cfg) = cfg.calendarUrlOverride THEN "override" ELSE "cache"

-----------------------------------------------------------------------------
\* The local store (db.js) as the reconciliation engine uses it.

\* ORDER BY date ASC: NULL sorts first, then text by byte value.
DateLess(d1, d2) ==
  IF d1 = NullDate THEN d2 # NullDate
  ELSE d2 # NullDate /\ TextLess(d1, d2)

\* db.js orderFor('tasks'): ORDER BY date ASC, created_at ASC. created_at is the
\* insertion time, and rows are inserted in id order.
RowBefore(a, b) == DateLess(a.date, b.date) \/ (a.date = b.date /\ a.id < b.id)

\* db.js selectRows(tasks, {caldav_uid: uid}): the matching rows.
SelectByUid(store, uid) == {t \in store : t.caldav_uid = uid}

\* existing[0]: the first row of the ordered result.
FirstRow(rows) == CHOOSE t \in rows : \A o \in rows \ {t} : RowBefore(t, o)

\* db.js insertRow with the column defaults of the schema.
InsertRow(store, id, data) == store \cup {[data EXCEPT !.id = id]}

UpdateRow_Delete(store, id, fields, data) == {t \in store : t.id # id}

\* db.js updateRow(tasks, data, {id}): the named columns of the row with that id.
UpdateRow(store, id, fields, data) ==
  { IF t.id = id
      THEN [f \in DOMAIN t |-> IF f \in fields THEN data[f] ELSE t[f]]
      ELSE t : t \in store }

-----------------------------------------------------------------------------
\* The reconciliation engine (main.js syncRemoteEvent and the merge loop).

StatusOf_Flipped(icsEv) == IF icsEv.STATUS = "CANCELLED" THEN "pending" ELSE "done"

\* main.js:241
StatusOf(icsEv) == IF icsEv.STATUS = "CANCELLED" THEN "done" ELSE "pending"

\* main.js:236
TitleOf(icsEv) == IF icsEv.SUMMARY # "" THEN icsEv.SUMMARY ELSE "(geen titel)"

EtagDiffers_Always(task, etag) == TRUE

\* main.js:258  task.caldav_etag !== etag
EtagDiffers(task, etag) == task.caldav_etag # etag

\* The update were of the columns the insert writes.
UpdatedFields_InsertColumns ==
  {"title", "description", "date", "status", "caldav_uid", "caldav_etag", "created_by", "priority"}

UpdatedFields_NoEtag == {"title", "description", "date", "status"}

\* main.js:261  the columns the update path writes
UpdatedFields == {"title", "description", "date", "status", "caldav_etag"}

\* main.js:232-267. icsEv carries its UID; yields the store, the next id and
\* whether the event counted as a change.
SyncRemoteEvent(store, nid, icsEv, etag) ==
  LET uid      == icsEv.UID
      data     == [ id |-> 0, title |-> TitleOf(icsEv), description |-> icsEv.DESCRIPTION,
                    date |-> ParseDTSTART(icsEv.DTSTART), status |-> StatusOf(icsEv),
                    caldav_uid |-> uid, caldav_etag |-> etag,
                    created_by |-> "CalDAV", priority |-> "medium" ]
      existing == SelectByUid(store, uid)
  IN  IF uid = "" THEN [store |-> store, nid |-> nid, changed |-> FALSE]
      ELSE IF existing = {}
        THEN [store |-> InsertRow(store, nid, data), nid |-> nid + 1, changed |-> TRUE]
      ELSE IF EtagDiffers(FirstRow(existing), etag)
        THEN [ store |-> UpdateRow(store, FirstRow(existing).id, UpdatedFields, data),
               nid |-> nid, changed |-> TRUE ]
      ELSE [store |-> store, nid |-> nid, changed |-> FALSE]

\* main.js:212-215: one event of an entry; the history records what it did.
MergeEvent(m, icsEv, etag) ==
  LET r == SyncRemoteEvent(m.store, m.nid, icsEv, etag)
  IN  [ store |-> r.store, nid |-> r.nid,
        imported |-> IF r.changed THEN m.imported + 1 ELSE m.imported,
        log |-> Append(m.log, [ ev |-> icsEv, etag |-> etag, before |-> m.store,
                                after |-> r.store, changed |-> r.changed ]) ]

RECURSIVE MergeEvents(_, _, _)
MergeEvents(m, icsEvents, etag) ==
  IF icsEvents = <<>> THEN m
  ELSE MergeEvents(MergeEvent(m, Head(icsEvents), etag), Tail(icsEvents), etag)

\* main.js:209-216: the merge loop over the fetched entries.
RECURSIVE MergeEntries(_, _)
MergeEntries(m, remoteEntries) ==
  IF remoteEntries = <<>> THEN m
  ELSE MergeEntries(MergeEvents(m, Head(remoteEntries).events, Head(remoteEntries).etag),
                    Tail(remoteEntries))

-----------------------------------------------------------------------------
\* The iCalendar codec (caldav.js:629-726). A text is a sequence of characters;
\* the property names and the fixed words of the format stand as one item each.

Backslash == "\\"

Newline == "\n"

\* The first index at or after from at which pat stands in s; 0 if there is none.
IndexOf(s, pat, from) ==
  LET at == {i \in from..(Len(s) - Len(pat) + 1) : SubSeq(s, i, i + Len(pat) - 1) = pat}
  IN  IF at = {} THEN 0 ELSE CHOOSE i \in at : \A j \in at : i <= j

\* String.prototype.replace(/pat/g, rep): the matches are found left to right
\* and do not overlap.
RECURSIVE ReplaceAll(_, _, _)
ReplaceAll(s, pat, rep) ==
  LET at == IndexOf(s, pat, 1)
  IN  IF at = 0 THEN s
      ELSE SubSeq(s, 1, at - 1) \o rep \o ReplaceAll(SubSeq(s, at + Len(pat), Len(s)), pat, rep)

\* caldav.js:720-726: the four replacements of escICS, in their order.
EscICS(s) ==
  ReplaceAll(ReplaceAll(ReplaceAll(ReplaceAll(s,
    <<Backslash>>, <<Backslash, Backslash>>),
    <<";">>, <<Backslash, ";">>),
    <<",">>, <<Backslash, ",">>),
    <<Newline>>, <<Backslash, "n">>)

\* caldav.js:642-646: the four replacements parseICS makes in a value, in their
\* order.
Unescape(v) ==
  ReplaceAll(ReplaceAll(ReplaceAll(ReplaceAll(v,
    <<Backslash, "n">>, <<Newline>>),
    <<Backslash, ",">>, <<",">>),
    <<Backslash, ";">>, <<";">>),
    <<Backslash, Backslash>>, <<Backslash>>)

\* Number(...) of a string of digits, and the digits of a number at a width.
DigitValue(c) == CHOOSE n \in 0..9 : ToString(n) = c

RECURSIVE NumberOf(_)
NumberOf(s) == IF s = <<>> THEN 0 ELSE 10 * NumberOf(SubSeq(s, 1, Len(s) - 1)) + DigitValue(s[Len(s)])

RECURSIVE Padded(_, _)
Padded(n, width) == IF width = 0 THEN <<>> ELSE Padded(n \div 10, width - 1) \o <<ToString(n % 10)>>

\* A date YYYY-MM-DD and its fields.
DateString(y, m, d) == Padded(y, 4) \o <<"-">> \o Padded(m, 2) \o <<"-">> \o Padded(d, 2)

YearOf(dateStr) == NumberOf(SubSeq(dateStr, 1, 4))

MonthOf(dateStr) == NumberOf(SubSeq(dateStr, 6, 7))

DayOf(dateStr) == NumberOf(SubSeq(dateStr, 9, 10))

IsLeapYear(y) == (y % 4 = 0 /\ y % 100 # 0) \/ y % 400 = 0

DaysInMonth(y, m) ==
  IF m = 2 THEN (IF IsLeapYear(y) THEN 29 ELSE 28)
  ELSE IF m \in {4, 6, 9, 11} THEN 30 ELSE 31

\* Date.prototype.setDate with a day past the end of the month: the date rolls
\* over into the next month, and from December into the next year.
SetDate_NoRollover(y, m, d) == DateString(y, m, d)

SetDate(y, m, d) ==
  IF d <= DaysInMonth(y, m) THEN DateString(y, m, d)
  ELSE IF m < 12 THEN DateString(y, m + 1, d - DaysInMonth(y, m))
  ELSE DateString(y + 1, 1, d - DaysInMonth(y, m))

\* caldav.js:714-718 incDate: noon UTC of the date, one day added, the date part
\* of the ISO string.
IncDate(dateStr) == SetDate(YearOf(dateStr), MonthOf(dateStr), DayOf(dateStr) + 1)

\* caldav.js:681
IcalStatus_Flipped(status) == IF status = "done" THEN "CONFIRMED" ELSE "CANCELLED"

IcalStatus(status) == IF status = "done" THEN "CANCELLED" ELSE "CONFIRMED"

\* toStamp(new Date()): the time at which generateICS runs.
Stamp == <<"20240305T101500Z">>

\* caldav.js:683-699: the lines of generateICS; a line for a description only if
\* there is one.
Lines(event) ==
  LET date == IF event.date = <<>> THEN Today ELSE event.date
  IN  << <<"BEGIN", ":", "VCALENDAR">>,
         <<"VERSION", ":", "2.0">>,
         <<"PRODID", ":", "-//Vonk & Vorm Project Manager//NL">>,
         <<"CALSCALE", ":", "GREGORIAN">>,
         <<"BEGIN", ":", "VEVENT">>,
         <<"UID", ":">> \o event.uid,
         <<"DTSTAMP", ":">> \o Stamp,
         <<"DTSTART", ";", "VALUE=DATE", ":">> \o StripDashes(date),
         <<"DTEND", ";", "VALUE=DATE", ":">> \o StripDashes(IncDate(date)) >>
      \o << <<"SUMMARY", ":">> \o EscICS(event.title) >>
      \o (IF event.description = <<>> THEN <<>>
          ELSE << <<"DESCRIPTION", ":">> \o EscICS(event.description) >>)
      \o << <<"STATUS", ":", IcalStatus(event.status)>>,
            <<"LAST-MODIFIED", ":">> \o Stamp,
            <<"END", ":", "VEVENT">>,
            <<"END", ":", "VCALENDAR">> >>

\* caldav.js:701: lines.join('\r\n') + '\r\n'
RECURSIVE Join(_)
Join(lines) ==
  IF lines = <<>> THEN <<>>
  ELSE IF Len(lines) = 1 THEN Head(lines)
  ELSE Head(lines) \o <<"\r", Newline>> \o Join(Tail(lines))

GenerateICSText(event) == Join(Lines(event)) \o <<"\r", Newline>>

\* caldav.js:631: replace(/\r\n?/g, '\n')
RECURSIVE NormaliseNewlines(_)
NormaliseNewlines(s) ==
  LET at == IndexOf(s, <<"\r">>, 1)
  IN  IF at = 0 THEN s
      ELSE SubSeq(s, 1, at - 1) \o <<Newline>>
           \o NormaliseNewlines(IF at < Len(s) /\ s[at + 1] = Newline
                                  THEN SubSeq(s, at + 2, Len(s)) ELSE SubSeq(s, at + 1, Len(s)))

\* caldav.js:631: replace(/\n[ \t]/g, ''), the unfolding of continuation lines.
RECURSIVE Unfold(_)
Unfold(s) ==
  LET folds == {i \in 1..(Len(s) - 1) : s[i] = Newline /\ s[i + 1] \in {" ", "\t"}}
      at    == IF folds = {} THEN 0 ELSE CHOOSE i \in folds : \A j \in folds : i <= j
  IN  IF at = 0 THEN s
      ELSE SubSeq(s, 1, at - 1) \o Unfold(SubSeq(s, at + 2, Len(s)))

\* caldav.js:633-635: /BEGIN:VEVENT([\s\S]*?)END:VEVENT/g, the captured texts.
RECURSIVE VeventBlocks(_, _)
VeventBlocks(text, from) ==
  LET b == IndexOf(text, <<"BEGIN", ":", "VEVENT">>, from)
      e == IF b = 0 THEN 0 ELSE IndexOf(text, <<"END", ":", "VEVENT">>, b + 3)
  IN  IF b = 0 \/ e = 0 THEN <<>>
      ELSE <<SubSeq(text, b + 3, e - 1)>> \o VeventBlocks(text, e + 3)

\* The lines of a text, split at its newlines.
RECURSIVE SplitLines(_)
SplitLines(s) ==
  LET n == IndexOf(s, <<Newline>>, 1)
  IN  IF n = 0 THEN <<s>> ELSE <<SubSeq(s, 1, n - 1)>> \o SplitLines(SubSeq(s, n + 1, Len(s)))

\* Words that match [A-Z][A-Z0-9\-]* .
Names ==
  { "BEGIN", "END", "VERSION", "PRODID", "CALSCALE", "UID", "DTSTAMP", "DTSTART", "DTEND",
    "SUMMARY", "DESCRIPTION", "STATUS", "LAST-MODIFIED" }

\* caldav.js:637: /^([A-Z][A-Z0-9\-]*(?:;[^\n:]+)?):(.*)$/ on one line: the base
\* key and the value, or no match.
NoMatch == [key |-> "", val |-> <<>>]

MatchLine(line) ==
  IF line = <<>> \/ line[1] \notin Names \/ Len(line) < 2 THEN NoMatch
  ELSE LET colon == IndexOf(line, <<":">>, 2)
       IN  IF colon = 2 \/ (line[2] = ";" /\ colon > 3)
             THEN [key |-> line[1], val |-> SubSeq(line, colon + 1, Len(line))]
             ELSE NoMatch

\* An event with no property set (a property never set reads as empty).
NoProps == [UID |-> <<>>, SUMMARY |-> <<>>, DESCRIPTION |-> <<>>, DTSTART |-> <<>>, STATUS |-> <<>>]

\* caldav.js:636-650: the properties of one block, a later line replacing an
\* earlier one of the same key.
RECURSIVE PropsOf(_, _)
PropsOf(lines, ev) ==
  IF lines = <<>> THEN ev
  ELSE LET lm == MatchLine(Head(lines))
       IN  PropsOf(Tail(lines),
                   IF lm.key \in DOMAIN ev THEN [ev EXCEPT ![lm.key] = Unescape(lm.val)] ELSE ev)

\* The blocks were every one of them kept, a UID or none.
WithUid_KeepsAll(evs) == evs

\* caldav.js:651: if (ev.UID) events.push(ev)
RECURSIVE WithUid(_)
WithUid(evs) ==
  IF evs = <<>> THEN <<>>
  ELSE (IF Head(evs).UID # <<>> THEN <<Head(evs)>> ELSE <<>>) \o WithUid(Tail(evs))

\* caldav.js:629-654 parseICS.
ParseICS(icsText) ==
  LET text   == Unfold(NormaliseNewlines(icsText))
      blocks == VeventBlocks(text, 1)
  IN  WithUid([i \in DOMAIN blocks |-> PropsOf(SplitLines(blocks[i]), NoProps)])

\* The string of a sequence of characters.
RECURSIVE Text(_)
Text(s) == IF s = <<>> THEN "" ELSE Head(s) \o Text(Tail(s))

\* An event of parseICS as syncRemoteEvent reads it.
IcsEvent(props) ==
  [ UID |-> Text(props.UID), SUMMARY |-> Text(props.SUMMARY),
    DESCRIPTION |-> Text(props.DESCRIPTION), DTSTART |-> props.DTSTART,
    STATUS |-> Text(props.STATUS) ]

\* A VEVENT block as other clients write it: a property the event does not have
\* has no line.
ForeignBlock(uid, ev) ==
  << <<"BEGIN", ":", "VEVENT">> >>
  \o (IF uid = "" THEN <<>> ELSE << <<"UID", ":", uid>> >>)
  \o (IF ev.DTSTART = <<>> THEN <<>> ELSE << <<"DTSTART", ":">> \o ev.DTSTART >>)
  \o (IF ev.SUMMARY = "" THEN <<>> ELSE << <<"SUMMARY", ":", ev.SUMMARY>> >>)
  \o (IF ev.DESCRIPTION = "" THEN <<>> ELSE << <<"DESCRIPTION", ":", ev.DESCRIPTION>> >>)
  \o (IF ev.STATUS = "" THEN <<>> ELSE << <<"STATUS", ":", ev.STATUS>> >>)
  \o << <<"END", ":", "VEVENT">> >>

ForeignText(blocks) ==
  Join(<< <<"BEGIN", ":", "VCALENDAR">> >> \o blocks \o << <<"END", ":", "VCALENDAR">> >>)

\* The calendar-data of the resource u in a REPORT answer.
EntryText(u, ev) ==
  ForeignText(CASE ev.blocks = "none" -> <<>>
                [] ev.blocks = "nouid" -> ForeignBlock("", ev)
                [] ev.blocks = "nouid+uid" -> ForeignBlock("", ev) \o ForeignBlock(u, ev)
                [] ev.blocks = "u1" -> ForeignBlock("u1", ev)
                [] OTHER -> ForeignBlock(u, ev))

-----------------------------------------------------------------------------
\* The collection client against the remote calendar.

\* caldav.js generateICS as the server stores it and parseICS reads it back
\* (the titles of the model hold none of the characters escICS escapes).
GenerateICS(task) ==
  [ SUMMARY |-> task.title, DESCRIPTION |-> task.description,
    DTSTART |-> StripDashes(IF task.date \in {NullDate, <<>>} THEN Today ELSE task.date),
    STATUS |-> IcalStatus(task.status), blocks |-> "uid" ]

\* caldav.js parseMultiStatus of a 207 REPORT answer: one entry per resource,
\* its etag read from getetag and its body parsed by parseICS.
\* What the server may hold: what other clients wrote and what was pushed.
PulledContents ==
  { [ title |-> TitleOf(ev), description |-> ev.DESCRIPTION, date |-> ParseDTSTART(ev.DTSTART),
      status |-> StatusOf(ev) ] : ev \in EvContents \cup SharedUidContents }

StoredContents ==
  EvContents \cup MalformedContents \cup SharedUidContents
  \cup {GenerateICS(c) : c \in UserContents \cup PulledContents}

\* parseICS of the calendar-data of every resource the server may hold, as
\* syncRemoteEvent reads the events (tabulated: parseICS is a function of the
\* text alone).
ParsedEntries ==
  [ u \in Uids, ev \in StoredContents |->
      LET icsEvents == ParseICS(EntryText(u, ev))
      IN  [i \in DOMAIN icsEvents |-> IcsEvent(icsEvents[i])] ]

RemoteEntry(rem, u) ==
  [ href   |-> u,
    etag   |-> ParseGetEtag(Quoted(VerToken(rem[u].ver))),
    events |-> ParsedEntries[u, rem[u].ev] ]

RECURSIVE EntriesOf(_, _)
EntriesOf(rem, uids) ==
  IF uids = <<>> THEN <<>>
  ELSE IF rem[Head(uids)].present
    THEN <<RemoteEntry(rem, Head(uids))>> \o EntriesOf(rem, Tail(uids))
  ELSE EntriesOf(rem, Tail(uids))

\* caldav.js fetchEvents answered with 207: the entries of the collection.
FetchEvents(rem) == EntriesOf(rem, UidOrder)

\* caldav.js putEvent: res.headers.etag || ''
PutEtag(header) == header

-----------------------------------------------------------------------------
\* The initial state of Spec and SpecPush: synchronisation is configured and
\* enabled, no collection URL is cached yet, the store and the calendar are empty.
\* The window has been created and startCalDAVSync has set both timers
\* (main.js:62-88).

\* No error message.
NoMessage == [text |-> "", status |-> 0, url |-> ""]

\* main.js:168-169: lastSyncTime and lastSyncError. The time is null, the end of
\* the run that completed last ("this"), or the end of a run before it ("earlier").
LastSync(time, error) == [time |-> time, error |-> error]

SyncInit ==
  /\ config = [enabled |-> TRUE, serverHost |-> "h0", calendarUrl |-> "", calendarUrlOverride |-> ""]
  /\ tasks = {}
  /\ nextId = 1
  /\ remote = [u \in Uids |-> Absent(0)]
  /\ runs = EmptyBag
  /\ push = IdlePush
  /\ lastSync = LastSync("null", NoMessage)
  /\ mergeLog = <<>>
  /\ notified = <<>>
  /\ pushedVer = [i \in Ids |-> 0]
  /\ del = IdleDelete
  /\ calDavTimer = TRUE
  /\ timeouts = 1
  /\ mainWindow = "open"

\* URLs of discovery: a host (characters, since error messages that name it are
\* searched) and a path (segments).
Url(host, path) == [host |-> host, path |-> path]

NoUrl == Url(<<>>, <<>>)

\* An href of a response body or a Location header: absolute (starts with http)
\* or a path on some host.
NoHref == [abs |-> FALSE, host |-> <<>>, path |-> <<>>]

NoError == [message |-> <<>>, host |-> <<>>, details |-> <<>>]

NoAnswer == [kind |-> "none", status |-> 0]

\* No earlier call whose outcome a canned server has on record.
NoPrev == [pc |-> "idle", host |-> <<>>, result |-> NoUrl, error |-> NoError, received |-> <<>>]

\* No discoverCalendarUrl call has been made.
DiscIdle ==
  [ pc |-> "idle", host |-> <<>>, i |-> 0, url |-> NoUrl, n |-> 0, log |-> <<>>,
    last |-> NoAnswer, auth |-> [n |-> 0, pc |-> "idle"], result |-> NoUrl, error |-> NoError,
    canned |-> <<>>, received |-> <<>>, prev |-> NoPrev ]

\* No event is on its way through the codec.
CodecIdle == [pc |-> "idle", event |-> <<>>, text |-> <<>>, events |-> <<>>]

Init == SyncInit /\ disc = DiscIdle /\ codec = CodecIdle

\* A step that ends no run: no merge loop ran and nothing was sent to the window.
NoMerge == mergeLog' = <<>> /\ notified' = <<>>

\* main.js:220 and 226: a notification reaches the window if there is one.
Send(notification) == IF mainWindow = "open" THEN notification ELSE <<>>

\* main.js:224: the time of an earlier run stays when a run fails.
Kept(time) == IF time = "null" THEN "null" ELSE "earlier"

\* main.js:221 and main.js:227: mainWindow.webContents.send
Synced(time, n) == <<[channel |-> "caldav:synced", time |-> time, imported |-> n]>>

SyncError(message) == <<[channel |-> "caldav:error", imported |-> 0, message |-> message]>>

\* The result an IPC handler returns to the renderer: { ok, error }.
Reply(channel, ok, error) ==
  <<[channel |-> channel, imported |-> 0, ok |-> ok, error |-> error]>>

\* Error messages, by their parts: the text, the status and the collection URL
\* they name, if any.
\* caldav.js:581
ReportError(status, url) == [text |-> "CalDAV REPORT mislukt", status |-> status, url |-> url]

\* caldav.js:373: the error of the socket; its message names no URL.
TransportError == [text |-> "getaddrinfo ENOTFOUND", status |-> 0, url |-> ""]

\* caldav.js:409 and 453: an error thrown by discoverCalendarUrl.
DiscoveryError == [text |-> "Kon geen kalender vinden", status |-> 0, url |-> ""]

\* caldav.js:566
FilterRejections == {400, 403, 501}

\* Statuses a server may answer a REPORT with.
ReportStatuses == {207, 400, 401, 403, 404, 500, 501}

\* The bag of runs with one run's state replaced.
Moved(q, q2) == (runs (-) SetToBag({q})) (+) SetToBag({q2})

InFlight == BagToSet(runs)

-----------------------------------------------------------------------------
\* The task dialog (renderer/app.js) writing the store through db:query.

UserRows == {t \in tasks : t.created_by = "user"}

\* renderer/app.js saveTask, the insert branch.
UserCreateTask(c) ==
  /\ Cardinality(tasks) < MaxTasks
  /\ tasks' = InsertRow(tasks, nextId,
                [ id |-> 0, title |-> c.title, description |-> c.description,
                  date |-> c.date, status |-> c.status, caldav_uid |-> "",
                  caldav_etag |-> <<>>, created_by |-> "user", priority |-> "high" ])
  /\ nextId' = nextId + 1
  /\ NoMerge /\ UNCHANGED <<config, remote, runs, push, lastSync, pushedVer, disc, codec, del, appVars>>

\* renderer/app.js saveTask, the update branch.
UserEditTask(t, c) ==
  /\ t \in tasks
  /\ [title |-> t.title, description |-> t.description, date |-> t.date, status |-> t.status] # c
  /\ tasks' = UpdateRow(tasks, t.id, {"title", "description", "date", "status"},
                        [ title |-> c.title, description |-> c.description,
                          date |-> c.date, status |-> c.status ])
  /\ NoMerge /\ UNCHANGED <<config, nextId, remote, runs, push, lastSync, pushedVer, disc, codec, del, appVars>>

\* renderer/app.js:993-1005: the delete button of the task dialog removes the
\* row of the task being edited; nothing is sent to the remote calendar.
UserDeleteTask(t) ==
  /\ t \in tasks
  /\ tasks' = {r \in tasks : r.id # t.id}
  /\ NoMerge /\ UNCHANGED <<config, nextId, remote, runs, push, lastSync, pushedVer, disc, codec, del, appVars>>

-----------------------------------------------------------------------------
\* Other clients of the remote calendar.

RemotePut(u, ev) ==
  /\ remote[u].ver < MaxVer
  /\ ~(remote[u].present /\ remote[u].ev = ev)
  /\ remote' = [remote EXCEPT ![u] = [present |-> TRUE, ver |-> remote[u].ver + 1, ev |-> ev]]
  /\ NoMerge /\ UNCHANGED <<config, tasks, nextId, runs, push, lastSync, pushedVer, disc, codec, del, appVars>>

RemoteDelete(u) ==
  /\ remote[u].present
  /\ remote' = [remote EXCEPT ![u] = Absent(remote[u].ver)]
  /\ NoMerge /\ UNCHANGED <<config, tasks, nextId, runs, push, lastSync, pushedVer, disc, codec, del, appVars>>

-----------------------------------------------------------------------------
\* runCalDAVSync (main.js:186-230), one action per await.

\* An execution of runCalDAVSync: where it is, the serverHost it read at its
\* start, the URL it resolved and where from, the status of its first REPORT and
\* the entries fetchEvents returned.
Run(pc, host, url, via) ==
  [pc |-> pc, host |-> host, url |-> url, via |-> via, status |-> 0, resp |-> <<>>]

\* main.js:187-195: runCalDAVSync is called. It returns at once if
\* synchronisation is disabled; otherwise the precondition checks pass and the
\* run starts; nothing in the function looks at whether another run is under way.
RunCalDAVSync ==
  /\ LET resolvedUrl == ResolvedUrl(config)
     IN  runs' = IF ~config.enabled THEN runs
                 ELSE runs (+) SetToBag({ IF resolvedUrl = ""
                                            THEN Run("discover", config.serverHost, "", Via(config))
                                            ELSE Run("report", config.serverHost, resolvedUrl, Via(config)) })
  /\ NoMerge /\ UNCHANGED <<config, tasks, nextId, remote, push, lastSync, pushedVer, disc, codec, del>>

\* main.js:182: an initial-delay timer fires, once.
TimeoutFires ==
  /\ timeouts > 0
  /\ timeouts' = timeouts - 1
  /\ RunCalDAVSync
  /\ UNCHANGED <<calDavTimer, mainWindow>>

\* main.js:183: the interval timer fires, and stays set.
IntervalFires ==
  /\ calDavTimer
  /\ RunCalDAVSync
  /\ UNCHANGED appVars

\* main.js:182-183: the initial-delay timer or the interval timer fires.
TimerFires == TimeoutFires \/ IntervalFires

\* main.js:318-321: caldav:sync-now awaits runCalDAVSync().
SyncNow == RunCalDAVSync /\ UNCHANGED appVars

\* main.js:200-204: discovery returned; the URL is cached and the REPORT is sent.
RunDiscovered(q) ==
  /\ q \in InFlight /\ q.pc = "discover"
  /\ config' = [config EXCEPT !.calendarUrl = DiscoveredUrl(q.host)]
  /\ runs' = Moved(q, Run("report", q.host, DiscoveredUrl(q.host), q.via))
  /\ NoMerge /\ UNCHANGED <<tasks, nextId, remote, push, lastSync, pushedVer, disc, codec, del, appVars>>

\* The failure were to cache the URL the run was about to use.
RunFailed_CachesUrl(q) ==
  /\ q \in InFlight /\ q.pc \in {"discover", "report", "report2"}
  /\ runs' = runs (-) SetToBag({q})
  /\ config' = [config EXCEPT !.calendarUrl = DiscoveredUrl(q.host)]
  /\ LET message == IF q.pc = "discover" THEN DiscoveryError ELSE TransportError
     IN  /\ lastSync' = LastSync(Kept(lastSync.time), message)
         /\ notified' = Send(SyncError(message))
  /\ mergeLog' = <<>>
  /\ UNCHANGED <<tasks, nextId, remote, push, pushedVer, disc, codec, del, appVars>>

\* main.js:223-229: discovery threw or a REPORT failed in transport; the error is
\* recorded.
RunFailed(q) ==
  /\ q \in InFlight /\ q.pc \in {"discover", "report", "report2"}
  /\ runs' = runs (-) SetToBag({q})
  /\ LET message == IF q.pc = "discover" THEN DiscoveryError ELSE TransportError
     IN  /\ lastSync' = LastSync(Kept(lastSync.time), message)
         /\ notified' = Send(SyncError(message))
  /\ mergeLog' = <<>>
  /\ UNCHANGED <<config, tasks, nextId, remote, push, pushedVer, disc, codec, del, appVars>>

\* caldav.js:563 and 578: the server answers a REPORT with 207 from its present
\* state; fetchEvents returns the parsed entries.
ServerAnswersReport(q) ==
  /\ q \in InFlight /\ q.pc \in {"report", "report2"}
  /\ runs' = Moved(q, [q EXCEPT !.pc = "answered", !.resp = FetchEvents(remote)])
  /\ NoMerge /\ UNCHANGED <<config, tasks, nextId, remote, push, lastSync, pushedVer, disc, codec, del, appVars>>

\* caldav.js:566-576: the server rejects the time-ranged REPORT; fetchEvents sends
\* the REPORT without time range to the same URL.
ServerRejectsFilter(q, status) ==
  /\ q \in InFlight /\ q.pc = "report"
  /\ status \in FilterRejections
  /\ runs' = Moved(q, [q EXCEPT !.pc = "report2", !.status = status])
  /\ NoMerge /\ UNCHANGED <<config, tasks, nextId, remote, push, lastSync, pushedVer, disc, codec, del, appVars>>

\* caldav.js:581 and main.js:223-229: a REPORT is answered with a status on which
\* fetchEvents throws; the message has the status of the first answer.
ServerRefusesReport(q, status) ==
  /\ q \in InFlight /\ q.pc \in {"report", "report2"}
  /\ status # 207
  /\ q.pc = "report" => status \notin FilterRejections
  /\ runs' = runs (-) SetToBag({q})
  /\ LET message == ReportError(IF q.pc = "report" THEN status ELSE q.status, q.url)
     IN  /\ lastSync' = LastSync(Kept(lastSync.time), message)
         /\ notified' = Send(SyncError(message))
  /\ mergeLog' = <<>>
  /\ UNCHANGED <<config, tasks, nextId, remote, push, pushedVer, disc, codec, del, appVars>>

\* main.js:207-222: the answer arrives; the merge loop and the end of the run.
\* Every await of the loop is on a settled promise, so the loop runs to its end
\* before any other handler, timer or response gets a turn.
RunMerged(q) ==
  /\ q \in InFlight /\ q.pc = "answered"
  /\ LET m == MergeEntries([store |-> tasks, nid |-> nextId, imported |-> 0, log |-> <<>>],
                           q.resp)
     IN  /\ Cardinality(m.store) <= MaxTasks
         /\ tasks' = m.store
         /\ nextId' = m.nid
         /\ lastSync' = LastSync("this", NoMessage)
         /\ notified' = Send(Synced(lastSync'.time, m.imported))
         /\ mergeLog' = m.log
  /\ runs' = runs (-) SetToBag({q})
  /\ UNCHANGED <<config, remote, push, pushedVer, disc, codec, del, appVars>>

\* db.js:119 and main.js:223-229: a query of the store throws while the merge loop
\* is at entry k + 1; what the loop wrote before stays written.
StoreError == [text |-> "Database not open", status |-> 0, url |-> ""]

\* The same failure were it not caught: nothing is recorded or sent.
RunMergeFailed_Escapes(q, k) ==
  /\ q \in InFlight /\ q.pc = "answered"
  /\ k \in 0..(Len(q.resp) - 1)
  /\ LET m == MergeEntries([store |-> tasks, nid |-> nextId, imported |-> 0, log |-> <<>>],
                           SubSeq(q.resp, 1, k))
     IN  /\ Cardinality(m.store) <= MaxTasks
         /\ tasks' = m.store
         /\ nextId' = m.nid
  /\ NoMerge
  /\ runs' = runs (-) SetToBag({q})
  /\ UNCHANGED <<config, remote, push, lastSync, pushedVer, disc, codec, del, appVars>>

RunMergeFailed(q, k) ==
  /\ q \in InFlight /\ q.pc = "answered"
  /\ k \in 0..(Len(q.resp) - 1)
  /\ LET m == MergeEntries([store |-> tasks, nid |-> nextId, imported |-> 0, log |-> <<>>],
                           SubSeq(q.resp, 1, k))
     IN  /\ Cardinality(m.store) <= MaxTasks
         /\ tasks' = m.store
         /\ nextId' = m.nid
  /\ lastSync' = LastSync(Kept(lastSync.time), StoreError)
  /\ notified' = Send(SyncError(StoreError))
  /\ mergeLog' = <<>>
  /\ runs' = runs (-) SetToBag({q})
  /\ UNCHANGED <<config, remote, push, pushedVer, disc, codec, del, appVars>>

-----------------------------------------------------------------------------
\* caldav:push-task (main.js:323-374), one action per await.

\* main.js:324-352: the handler is called with a row the renderer just loaded.
PushTask(t) ==
  /\ push.pc = "idle"
  /\ t \in tasks
  /\ LET calendarUrl == ResolvedUrl(config)
         uid == IF t.caldav_uid # "" THEN t.caldav_uid ELSE PmUid(t.id)
     IN  push' = [ pc |-> IF calendarUrl = "" THEN "discover" ELSE "put",
                   host |-> config.serverHost, url |-> calendarUrl, via |-> Via(config),
                   task |-> t.id, uid |-> uid, ev |-> GenerateICS(t),
                   ok |-> FALSE, etag |-> <<>>, ver |-> 0 ]
  /\ NoMerge /\ UNCHANGED <<config, tasks, nextId, remote, runs, lastSync, pushedVer, disc, codec, del, appVars>>

\* main.js:337-340
PushDiscovered ==
  /\ push.pc = "discover"
  /\ config' = [config EXCEPT !.calendarUrl = DiscoveredUrl(push.host)]
  /\ push' = [push EXCEPT !.pc = "put", !.url = DiscoveredUrl(push.host)]
  /\ NoMerge /\ UNCHANGED <<tasks, nextId, remote, runs, lastSync, pushedVer, disc, codec, del, appVars>>

\* main.js:341-343 and 371-373: discovery threw, or the PUT failed in transport.
PushFailed ==
  /\ push.pc \in {"discover", "put"}
  /\ push' = IdlePush
  /\ mergeLog' = <<>>
  /\ notified' = Reply("caldav:push-task", FALSE,
                       IF push.pc = "discover" THEN "Kalender niet gevonden" ELSE TransportError.text)
  /\ UNCHANGED <<config, tasks, nextId, remote, runs, lastSync, pushedVer, disc, codec, del, appVars>>

\* The server stores the resource and answers the PUT, with or without an ETag header.
ServerAcceptsPut(withEtag) ==
  /\ push.pc = "put"
  /\ remote[push.uid].ver < MaxVer
  /\ LET v == remote[push.uid].ver + 1
     IN  /\ remote' = [remote EXCEPT ![push.uid] = [present |-> TRUE, ver |-> v, ev |-> push.ev]]
         /\ push' = [push EXCEPT !.pc = "answered", !.ok = TRUE, !.ver = v,
                       !.etag = IF withEtag THEN Quoted(VerToken(v)) ELSE <<>>]
  /\ NoMerge /\ UNCHANGED <<config, tasks, nextId, runs, lastSync, pushedVer, disc, codec, del, appVars>>

\* The server answers the PUT with an error status; putEvent returns it as a result.
ServerRejectsPut ==
  /\ push.pc = "put"
  /\ push' = [push EXCEPT !.pc = "answered", !.ok = FALSE, !.etag = <<>>]
  /\ NoMerge /\ UNCHANGED <<config, tasks, nextId, remote, runs, lastSync, pushedVer, disc, codec, del, appVars>>

\* main.js:362-370: the PUT's answer arrives, whatever its status; the row is
\* stamped with uid and etag and the handler returns { ok: true }.
PushStamped ==
  /\ push.pc = "answered"
  /\ tasks' = UpdateRow(tasks, push.task, {"caldav_uid", "caldav_etag"},
                        [caldav_uid |-> push.uid, caldav_etag |-> PutEtag(push.etag)])
  /\ pushedVer' = IF push.ok THEN [pushedVer EXCEPT ![push.task] = push.ver] ELSE pushedVer
  /\ push' = IdlePush
  /\ mergeLog' = <<>>
  /\ notified' = Reply("caldav:push-task", TRUE, "")
  /\ UNCHANGED <<config, nextId, remote, runs, lastSync, disc, codec, del, appVars>>

-----------------------------------------------------------------------------
\* caldav:delete-task (main.js:376-404), one action per await.

\* Statuses a server may answer a DELETE with.
DeleteStatuses == {200, 204, 401, 403, 404, 500}

DeleteOk_NotFoundFails(status) == status \in {200, 204}

\* main.js:399
DeleteOk(status) == status \in {200, 204, 404}

\* main.js:377-395: the handler is called with a uid.
DeleteTask(uid) ==
  /\ del.pc = "idle"
  /\ del' = [ pc |-> IF ResolvedUrl(config) = "" THEN "discover" ELSE "delete",
              host |-> config.serverHost, url |-> ResolvedUrl(config), via |-> Via(config),
              uid |-> uid, status |-> 0 ]
  /\ NoMerge /\ UNCHANGED <<config, tasks, nextId, remote, runs, push, lastSync, pushedVer, disc, codec, appVars>>

\* main.js:388-391: discovery returned; the URL is cached and the DELETE is sent.
DeleteDiscovered ==
  /\ del.pc = "discover"
  /\ config' = [config EXCEPT !.calendarUrl = DiscoveredUrl(del.host)]
  /\ del' = [del EXCEPT !.pc = "delete", !.url = DiscoveredUrl(del.host)]
  /\ NoMerge /\ UNCHANGED <<tasks, nextId, remote, runs, push, lastSync, pushedVer, disc, codec, appVars>>

\* main.js:392-394 and 401-403: discovery threw, or the DELETE failed in transport.
DeleteFailed ==
  /\ del.pc \in {"discover", "delete"}
  /\ del' = [IdleDelete EXCEPT !.uid = del.uid]
  /\ mergeLog' = <<>>
  /\ notified' = Reply("caldav:delete-task", FALSE,
                       IF del.pc = "discover" THEN "Kalender niet gevonden" ELSE TransportError.text)
  /\ UNCHANGED <<config, tasks, nextId, remote, runs, push, lastSync, pushedVer, disc, codec, appVars>>

\* caldav.js:598-602 and main.js:398-400: the server answers the DELETE (2xx when
\* it removed the resource, 404 when there was none, or an error status) and the
\* handler returns.
ServerAnswersDelete(status) ==
  /\ del.pc = "delete"
  /\ status \in {200, 204} => remote[del.uid].present
  /\ status = 404 => ~remote[del.uid].present
  /\ remote' = IF status \in {200, 204}
                 THEN [remote EXCEPT ![del.uid] = Absent(remote[del.uid].ver)]
                 ELSE remote
  /\ del' = [IdleDelete EXCEPT !.uid = del.uid, !.status = status]
  /\ mergeLog' = <<>>
  /\ notified' = IF DeleteOk(status)
                   THEN Reply("caldav:delete-task", TRUE, "")
                   ELSE Reply("caldav:delete-task", FALSE, "HTTP " \o ToString(status))
  /\ UNCHANGED <<config, tasks, nextId, runs, push, lastSync, pushedVer, disc, codec, appVars>>

-----------------------------------------------------------------------------
\* caldav:save-config (main.js:271-286).

\* An argument the caller left out.
Undefined == "undefined"

\* main.js:280: calendarUrlOverride || ''
OrEmpty(v) == IF v = Undefined THEN "" ELSE v

\* main.js:176-184: startCalDAVSync clears the interval timer and, if
\* synchronisation is enabled, sets an initial-delay timer and the interval
\* timer. No handle of an initial-delay timer is kept.
StartCalDAVSync(enabled) ==
  /\ enabled => timeouts < MaxTimeouts
  /\ calDavTimer' = enabled
  /\ timeouts' = IF enabled THEN timeouts + 1 ELSE timeouts

\* main.js:272-285: the caldav section is written anew, the cached URL is reset
\* and the timers are set anew.
SaveConfig(serverHost, enabled, calendarUrlOverride) ==
  /\ config' = [ enabled |-> enabled, serverHost |-> serverHost,
                 calendarUrlOverride |-> OrEmpty(calendarUrlOverride),
                 calendarUrl |-> "" ]
  /\ StartCalDAVSync(config'.enabled)
  /\ <<config, timeouts>>' # <<config, timeouts>>
  /\ mergeLog' = <<>>
  /\ notified' = Reply("caldav:save-config", TRUE, "")
  /\ UNCHANGED <<tasks, nextId, remote, runs, push, lastSync, pushedVer, disc, codec, del, mainWindow>>

-----------------------------------------------------------------------------
\* The window (main.js:62-99).

Platforms == {"darwin", "linux"}

\* main.js:97-99: the window is closed. On macOS the app stays, with its timers
\* and the runs in flight; elsewhere the app quits.
WindowAllClosed(platform) ==
  /\ mainWindow = "open"
  /\ IF platform = "darwin"
       THEN /\ mainWindow' = "destroyed"
            /\ UNCHANGED <<runs, calDavTimer, timeouts>>
       ELSE /\ mainWindow' = "quit"
            /\ runs' = EmptyBag
            /\ calDavTimer' = FALSE
            /\ timeouts' = 0
  /\ NoMerge /\ UNCHANGED <<config, tasks, nextId, remote, push, lastSync, pushedVer, disc, codec, del>>

\* main.js:92-94 and 62-88: the app is activated with no window; createWindow
\* calls startCalDAVSync.
Activate ==
  /\ mainWindow = "destroyed"
  /\ mainWindow' = "open"
  /\ StartCalDAVSync(config.enabled)
  /\ NoMerge /\ UNCHANGED <<config, tasks, nextId, remote, runs, push, lastSync, pushedVer, disc, codec, del>>

-----------------------------------------------------------------------------
\* Spec: the pull side. Runs may overlap, up to MaxRuns at a time; the store
\* keeps room for one pulled row per foreign uid.

Next ==
  \/ \E c \in UserContents :
       Cardinality(tasks) + Cardinality(ForeignUids) < MaxTasks /\ UserCreateTask(c)
  \/ \E u \in ForeignUids, ev \in EvContents : RemotePut(u, ev)
  \/ \E u \in ForeignUids : RemoteDelete(u)
  \/ BagCardinality(runs) < MaxRuns /\ IntervalFires
  \/ BagCardinality(runs) < MaxRuns /\ SyncNow
  \/ \E q \in InFlight : RunDiscovered(q)
  \/ \E q \in InFlight : RunFailed(q)
  \/ \E q \in InFlight : ServerAnswersReport(q)
  \/ \E q \in InFlight : RunMerged(q)

Spec == Init /\ [][Next]_vars

\* SpecPush: the push side. One run at a time, no other client; a pushed task
\* can be pulled back as a second row, so the user's rows fill half the store.

NextPush ==
  \/ \E c \in UserContents : 2 * (Cardinality(UserRows) + 1) <= MaxTasks /\ UserCreateTask(c)
  \/ \E t \in tasks, c \in UserContents : UserEditTask(t, c)
  \/ runs = EmptyBag /\ TimerFires
  \/ \E q \in InFlight : RunDiscovered(q)
  \/ \E q \in InFlight : ServerAnswersReport(q)
  \/ \E q \in InFlight : RunMerged(q)
  \/ \E t \in tasks : PushTask(t)
  \/ PushDiscovered
  \/ PushFailed
  \/ \E withEtag \in BOOLEAN : ServerAcceptsPut(withEtag)
  \/ ServerRejectsPut
  \/ PushStamped

SpecPush == Init /\ [][NextPush]_vars

\* SpecCfg: the configuration changes while calls are under way. One call (run,
\* push or delete) at a time; the store holds one task.

NoCall == runs = EmptyBag /\ push.pc = "idle" /\ del.pc = "idle"

NextCfg ==
  \/ \E serverHost \in ConfigHosts, override \in {Undefined, OverrideUrl} :
       SaveConfig(serverHost, TRUE, override)
  \/ \E c \in UserContents : tasks = {} /\ c.status = "pending" /\ UserCreateTask(c)
  \/ NoCall /\ TimerFires
  \/ NoCall /\ SyncNow
  \/ \E q \in InFlight : RunDiscovered(q)
  \/ \E q \in InFlight : RunFailed(q)
  \/ \E q \in InFlight : ServerAnswersReport(q)
  \/ \E q \in InFlight : RunMerged(q)
  \/ \E t \in tasks : NoCall /\ PushTask(t)
  \/ PushDiscovered
  \/ PushFailed
  \/ ServerAcceptsPut(TRUE)
  \/ ServerRejectsPut
  \/ PushStamped
  \/ \E uid \in {PmUid(1)} : NoCall /\ DeleteTask(uid)
  \/ DeleteDiscovered
  \/ DeleteFailed
  \/ \E status \in DeleteStatuses : ServerAnswersDelete(status)

SpecCfg == Init /\ [][NextCfg]_vars

\* SpecFetch: one run at a time against a server that answers its REPORTs with
\* any status, or not at all.

NextFetch ==
  \/ \E u \in ForeignUids, ev \in EvContents : RemotePut(u, ev)
  \/ \E u \in ForeignUids : RemoteDelete(u)
  \/ runs = EmptyBag /\ TimerFires
  \/ \E q \in InFlight : RunDiscovered(q)
  \/ \E q \in InFlight : RunFailed(q)
  \/ \E q \in InFlight : ServerAnswersReport(q)
  \/ \E q \in InFlight, status \in ReportStatuses : ServerRejectsFilter(q, status)
  \/ \E q \in InFlight, status \in ReportStatuses : ServerRefusesReport(q, status)
  \/ \E q \in InFlight : RunMerged(q)

SpecFetch == Init /\ [][NextFetch]_vars

\* SpecHang: SpecFetch with the scheduling the event loop gives: a continuation
\* whose response has arrived runs. Nothing makes a server answer, and
\* httpRequest (caldav.js:344-377) sets no timeout that would end a request.
SpecHang == Init /\ [][NextFetch]_vars /\ WF_vars(\E q \in InFlight : RunMerged(q))

\* SpecSched: the scheduler. Synchronisation is switched on and off, the window
\* is closed and opened again, runs fail in discovery, fetch and merge. One run
\* at a time.

NextSched ==
  \/ \E enabled \in BOOLEAN : mainWindow = "open" /\ SaveConfig("h0", enabled, Undefined)
  \/ \E platform \in Platforms : WindowAllClosed(platform)
  \/ Activate
  \/ \E ev \in EvContents : RemotePut("u1", ev)
  \/ runs = EmptyBag /\ TimeoutFires
  \/ runs = EmptyBag /\ IntervalFires
  \/ mainWindow = "open" /\ runs = EmptyBag /\ SyncNow
  \/ \E q \in InFlight : RunDiscovered(q)
  \/ \E q \in InFlight : RunFailed(q)
  \/ \E q \in InFlight : ServerAnswersReport(q)
  \/ \E q \in InFlight : ServerRefusesReport(q, 500)
  \/ \E q \in InFlight : RunMerged(q)
  \/ \E q \in InFlight, k \in 0..Cardinality(Uids) : RunMergeFailed(q, k)

SpecSched == Init /\ [][NextSched]_vars

\* SpecMalformed: other clients leave resources whose calendar-data has no
\* VEVENT block, a block without UID, or a block without UID before one with
\* it, next to well-formed ones. One run at a time.

MalformedUids == {"u1", PmUid(1)}

NextMalformed ==
  \/ \E u \in MalformedUids, ev \in EvContents \cup MalformedContents : RemotePut(u, ev)
  \/ runs = EmptyBag /\ TimerFires
  \/ \E q \in InFlight : RunDiscovered(q)
  \/ \E q \in InFlight : ServerAnswersReport(q)
  \/ \E q \in InFlight : RunMerged(q)

SpecMalformed == Init /\ [][NextMalformed]_vars

\* SpecAgain: run after run over a remote calendar that other clients filled
\* before the first run started and leave alone from then on; two of its
\* resources may hold an event of the same UID. Nothing changes the store but
\* the runs. One run at a time.

NextAgain ==
  \/ \E ev \in EvContents :
       lastSync.time = "null" /\ runs = EmptyBag /\ RemotePut("u1", ev)
  \/ \E ev \in EvContents \cup SharedUidContents :
       lastSync.time = "null" /\ runs = EmptyBag /\ RemotePut(PmUid(1), ev)
  \/ runs = EmptyBag /\ TimerFires
  \/ \E q \in InFlight : RunDiscovered(q)
  \/ \E q \in InFlight : ServerAnswersReport(q)
  \/ \E q \in InFlight : RunMerged(q)

SpecAgain == Init /\ [][NextAgain]_vars

\* SpecUndelete: SpecAgain with one event per UID and a user who deletes tasks
\* in the task dialog, as long as the store has handed out at most MaxId ids.

MaxId == 4

NextUndelete ==
  \/ \E u \in {"u1", PmUid(1)}, ev \in EvContents :
       lastSync.time = "null" /\ runs = EmptyBag /\ RemotePut(u, ev)
  \/ \E t \in tasks : nextId <= MaxId /\ UserDeleteTask(t)
  \/ runs = EmptyBag /\ TimerFires
  \/ \E q \in InFlight : RunDiscovered(q)
  \/ \E q \in InFlight : ServerAnswersReport(q)
  \/ \E q \in InFlight : RunMerged(q)

SpecUndelete == Init /\ [][NextUndelete]_vars

\* SpecRepush: another client stores the event u1 in a resource that is not
\* named after its UID; runs pull it and the user pushes the pulled task. No
\* other client writes a second resource. One run at a time; a task exists
\* only once a run has cached the collection URL, so no push discovers.

NextRepush ==
  \/ \E ev \in SharedUidContents : RemotePut(PmUid(1), ev)
  \/ runs = EmptyBag /\ TimerFires
  \/ \E q \in InFlight : RunDiscovered(q)
  \/ \E q \in InFlight : ServerAnswersReport(q)
  \/ \E q \in InFlight : RunMerged(q)
  \/ \E t \in tasks : PushTask(t)
  \/ \E withEtag \in BOOLEAN : ServerAcceptsPut(withEtag)
  \/ PushStamped

SpecRepush == Init /\ [][NextRepush]_vars

-----------------------------------------------------------------------------
\* Discovery: caldav.js discoverCalendarUrl and its helpers.
\*
\* disc is the state of one call:
\*   pc      "direct", "wellknown", "home" (the depth-1 query of resolveToCalendar),
\*           "principal": the strategy whose request is outstanding;
\*           "returned" / "thrown": how the call ended
\*   host    the serverHost argument
\*   i       index of the outstanding candidate (hop number in the well-known chase)
\*   url     URL of the outstanding request
\*   n       number of requests the call has issued
\*   log     the failure log (caldav.js:388)
\*   last    history: the answer to the latest request
\*   auth    history: the request (its number and strategy) first answered with 401
\*   result, error   the URL returned / the error thrown
\*   canned   the canned server the call talks to, if it is one (SpecTwice): a
\*            fixed answer for each kind of URL
\*   received history: the requests the canned server got during this call
\*   prev     history: how the previous call to the canned server went

ServerHosts == { <<"d", "a", "v", ".", "n", "l">>, <<"d", "a", "v", "4", "0", "1", ".", "n", "l">> }

\* A host that redirects and hrefs may name.
OtherHost == <<"c", "a", "l", ".", "n", "l">>

Username == <<"info", "@", "vonkenvorm.com">>

\* caldav.js:387
EncodeURIComponent(u) == [k \in DOMAIN u |-> IF u[k] = "@" THEN "%40" ELSE u[k]]

\* caldav.js:392-398
DirectCandidates(host, username) ==
  << Url(host, <<"caldav", "v2">> \o username \o <<"calendar">>),
     Url(host, <<"caldav", "v2">> \o EncodeURIComponent(username) \o <<"calendar">>),
     Url(host, <<"caldav", "v2">> \o username),
     Url(host, <<"calendars">> \o username),
     Url(host, <<"calendars">> \o EncodeURIComponent(username)) >>

\* caldav.js:418
WellKnownUrl(host) == Url(host, <<".well-known", "caldav">>)

\* caldav.js:419
MaxHops == 5

\* caldav.js:436-441
PrincipalCandidates(host, username) ==
  << Url(host, <<"principals">> \o username),
     Url(host, <<"principals">> \o EncodeURIComponent(username)),
     Url(host, <<"principals", "users">> \o username),
     Url(host, <<"principals", "users">> \o EncodeURIComponent(username)) >>

\* String.prototype.includes
Includes(s, sub) ==
  \E k \in 1..(Len(s) - Len(sub) + 1) : SubSeq(s, k, k + Len(sub) - 1) = sub

Chars401 == <<"4", "0", "1">>

\* caldav.js:409: 'Authenticatie mislukt (401). ...'
AuthMessage ==
  << "A", "u", "t", "h", "e", "n", "t", "i", "c", "a", "t", "i", "e", " ",
     "m", "i", "s", "l", "u", "k", "t", " ", "(", "4", "0", "1", ")", "." >>

AuthError == [message |-> AuthMessage, host |-> <<>>, details |-> <<>>]

\* caldav.js:373: the error of the socket, here that of a failed name lookup,
\* whose message names the host: 'getaddrinfo ENOTFOUND <hostname>'.
TransportMessage(host) == <<"E", "N", "O", "T", "F", "O", "U", "N", "D", " ">> \o host

\* caldav.js:453-457: 'Kon geen kalender vinden op <serverHost>' and the first
\* three entries of the log.
NotFoundMessage == <<"K", "o", "n", " ", "g", "e", "e", "n">>

NotFound_WholeLog(host, log) == [message |-> NotFoundMessage, host |-> host, details |-> log]

NotFound(host, log) ==
  [ message |-> NotFoundMessage, host |-> host,
    details |-> SubSeq(log, 1, IF Len(log) < 3 THEN Len(log) ELSE 3) ]

\* What a server may answer to a PROPFIND.
HomeHref == [abs |-> FALSE, host |-> <<>>, path |-> <<"cal", "home">>]

HomeHrefAbs == [abs |-> TRUE, host |-> OtherHost, path |-> <<"cal", "home">>]

ChildHref == [abs |-> FALSE, host |-> <<>>, path |-> <<"cal", "home", "work">>]

Block(href, calendar) == [href |-> href, calendar |-> calendar]

NoBody == [home |-> NoHref, blocks |-> <<>>]

Response(status, location, body) == [status |-> status, location |-> location, body |-> body]

Redirects == {301, 302, 308}

Responses ==
  { Response(st, NoHref, NoBody) : st \in {207, 401, 404} }
  \cup { Response(207, NoHref, [home |-> h, blocks |-> <<>>]) : h \in {HomeHref, HomeHrefAbs} }
  \cup { Response(207, NoHref, [home |-> NoHref, blocks |-> b]) :
           b \in { <<Block(HomeHref, TRUE)>>,
                   <<Block(HomeHref, TRUE), Block(ChildHref, FALSE), Block(ChildHref, TRUE)>> } }
  \cup { Response(st, loc, NoBody) :
           st \in Redirects,
           loc \in { NoHref, [abs |-> TRUE, host |-> OtherHost, path |-> <<"dav">>],
                     [abs |-> FALSE, host |-> <<>>, path |-> <<"dav">>] } }

\* caldav.js:483, 496, 521: an href on the given host unless it is absolute.
Absolute(href, host) == IF href.abs THEN Url(href.host, href.path) ELSE Url(host, href.path)

\* caldav.js:402, 420, 465, 504: httpRequest is called.
Request(d, pc, i, url) ==
  [d EXCEPT !.pc = pc, !.i = i, !.url = url, !.n = d.n + 1,
            !.received = IF d.canned = <<>> THEN @ ELSE Append(@, url)]

Return(d, url) == [d EXCEPT !.pc = "returned", !.result = url]

Throw(d, err) == [d EXCEPT !.pc = "thrown", !.error = err]

LogPush(d, url, message) == [d EXCEPT !.log = Append(@, [url |-> url, message |-> message])]

\* The answer to the outstanding request arrives.
Answered(d, r) ==
  [d EXCEPT !.last = [kind |-> "status", status |-> r.status],
            !.auth = IF r.status = 401 /\ d.auth.n = 0 THEN [n |-> d.n, pc |-> d.pc] ELSE @]

Failed(d) == [d EXCEPT !.last = [kind |-> "error", status |-> 0]]

\* caldav.js:435-451
StartPrincipal(d) == Request(d, "principal", 1, PrincipalCandidates(d.host, Username)[1])

NextPrincipal(d) ==
  IF d.i < Len(PrincipalCandidates(d.host, Username))
    THEN Request(d, "principal", d.i + 1, PrincipalCandidates(d.host, Username)[d.i + 1])
    ELSE Throw(d, NotFound(d.host, d.log))

\* caldav.js:416-418
StartWellKnown(d) == Request(d, "wellknown", 0, WellKnownUrl(d.host))

\* caldav.js:400, 414: the loop over the direct candidates goes on.
NextDirect_Remembering(d) ==
  IF d.prev.pc # "idle" THEN StartWellKnown(d)
  ELSE IF d.i < Len(DirectCandidates(d.host, Username))
    THEN Request(d, "direct", d.i + 1, DirectCandidates(d.host, Username)[d.i + 1])
    ELSE StartWellKnown(d)

NextDirect(d) ==
  IF d.i < Len(DirectCandidates(d.host, Username))
    THEN Request(d, "direct", d.i + 1, DirectCandidates(d.host, Username)[d.i + 1])
    ELSE StartWellKnown(d)

Catch_LogsAll(d, message) == NextDirect(LogPush(d, d.url, message))

\* caldav.js:410-413: the catch clause of strategy 1.
Catch(d, message) ==
  IF Includes(message, Chars401)
    THEN Throw(d, [message |-> message, host |-> <<>>, details |-> <<>>])
    ELSE NextDirect(LogPush(d, d.url, message))

\* caldav.js:464-484: the home URL, or NoUrl for null.
GetCalendarHomeFromPrincipal(r, host) ==
  IF r.status # 207 THEN NoUrl
  ELSE IF r.body.home = NoHref THEN NoUrl
  ELSE Absolute(r.body.home, host)

\* caldav.js:520
IsHome(href, homeUrl) ==
  \/ ~href.abs /\ href.path = homeUrl.path
  \/ href.abs /\ Url(href.host, href.path) = homeUrl

\* caldav.js:503-526
FirstCalendarCollection(homeUrl, r) ==
  LET ok == {k \in DOMAIN r.body.blocks :
               /\ r.body.blocks[k].calendar
               /\ r.body.blocks[k].href # NoHref
               /\ ~IsHome(r.body.blocks[k].href, homeUrl)}
  IN  IF r.status # 207 THEN homeUrl
      ELSE IF ok = {} THEN homeUrl
      ELSE Absolute(r.body.blocks[CHOOSE k \in ok : \A m \in ok : k <= m].href, homeUrl.host)

\* What a finished call leaves on the record of the canned server.
Outcome(d) ==
  [pc |-> d.pc, host |-> d.host, result |-> d.result, error |-> d.error, received |-> d.received]

\* caldav.js:385-400: discoverCalendarUrl is called and sends its first request.
DiscoverCalendarUrl(serverHost) ==
  /\ disc.pc \in {"idle", "returned", "thrown"}
  /\ disc' = Request([DiscIdle EXCEPT !.host = serverHost, !.canned = disc.canned,
                                       !.prev = IF disc.canned = <<>> THEN NoPrev ELSE Outcome(disc)],
                      "direct", 1, DirectCandidates(serverHost, Username)[1])
  /\ UNCHANGED syncVars

\* caldav.js:402-409: a direct candidate is answered.
DirectAnswer(r) ==
  /\ disc.pc = "direct"
  /\ disc' = LET d == Answered(disc, r)
             IN  IF r.status = 207 THEN Return(d, d.url)
                 ELSE IF r.status = 401 THEN Catch(d, AuthMessage)
                 ELSE NextDirect(d)
  /\ UNCHANGED syncVars

\* caldav.js:402, 410-413: the request to a direct candidate fails in transport.
DirectFails ==
  /\ disc.pc = "direct"
  /\ disc' = Catch(Failed(disc), TransportMessage(disc.url.host))
  /\ UNCHANGED syncVars

\* The chase followed every redirect, however many came before.
FollowRedirect_Unbounded(d, next) == Request(d, "wellknown", d.i + 1, next)

\* caldav.js:419 and 427-431: the redirect is followed while hop + 1 < 5; after
\* the fifth request the loop ends and strategy 3 starts.
FollowRedirect(d, next) ==
  IF d.i + 1 < MaxHops THEN Request(d, "wellknown", d.i + 1, next) ELSE StartPrincipal(d)

\* caldav.js:419-432 and 489-501: a hop of the well-known chase is answered.
WellKnownAnswer(r) ==
  /\ disc.pc = "wellknown"
  /\ disc' = LET d == Answered(disc, r)
                 next == IF r.location.abs THEN Url(r.location.host, r.location.path)
                         ELSE Url(d.host, r.location.path)
             IN  IF r.status = 207
                   THEN IF r.body.home # NoHref
                          THEN Request(d, "home", d.i, Absolute(r.body.home, d.url.host))
                          ELSE Return(d, d.url)
                 ELSE IF r.status \in Redirects /\ r.location # NoHref
                   THEN FollowRedirect(d, next)
                 ELSE StartPrincipal(d)
  /\ UNCHANGED syncVars

\* caldav.js:433: a hop fails in transport.
WellKnownFails ==
  /\ disc.pc = "wellknown"
  /\ disc' = StartPrincipal(LogPush(Failed(disc), WellKnownUrl(<<>>), TransportMessage(disc.url.host)))
  /\ UNCHANGED syncVars

\* caldav.js:497 and 503-526: the depth-1 query of the home is answered.
HomeAnswer(r) ==
  /\ disc.pc = "home"
  /\ disc' = LET d == Answered(disc, r) IN Return(d, FirstCalendarCollection(d.url, r))
  /\ UNCHANGED syncVars

\* caldav.js:497 and 433: the depth-1 query fails in transport.
HomeFails ==
  /\ disc.pc = "home"
  /\ disc' = StartPrincipal(LogPush(Failed(disc), WellKnownUrl(<<>>), TransportMessage(disc.url.host)))
  /\ UNCHANGED syncVars

\* caldav.js:443-451: a principal candidate is answered.
PrincipalAnswer(r) ==
  /\ disc.pc = "principal"
  /\ disc' = LET d == Answered(disc, r)
                 calHome == GetCalendarHomeFromPrincipal(r, d.host)
             IN  IF calHome # NoUrl THEN Return(d, calHome) ELSE NextPrincipal(d)
  /\ UNCHANGED syncVars

\* caldav.js:450: the request to a principal candidate fails in transport.
PrincipalFails ==
  /\ disc.pc = "principal"
  /\ disc' = NextPrincipal(LogPush(Failed(disc), disc.url, TransportMessage(disc.url.host)))
  /\ UNCHANGED syncVars

NextDisc ==
  \/ \E serverHost \in ServerHosts : DiscoverCalendarUrl(serverHost)
  \/ \E r \in Responses : DirectAnswer(r)
  \/ DirectFails
  \/ \E r \in Responses : WellKnownAnswer(r)
  \/ WellKnownFails
  \/ \E r \in Responses : HomeAnswer(r)
  \/ HomeFails
  \/ \E r \in Responses : PrincipalAnswer(r)
  \/ PrincipalFails

SpecDisc == Init /\ [][NextDisc]_vars

\* SpecTwice: discoverCalendarUrl is called again and again against a canned
\* server, one that gives every request to the same kind of URL the same answer.

\* The kind of a URL: its first path segment.
Class(url) == url.path[1]

Classes == {"caldav", "calendars", ".well-known", "dav", "cal", "principals"}

Fails == [fails |-> TRUE, response |-> Response(0, NoHref, NoBody)]

Answers(r) == [fails |-> FALSE, response |-> r]

RedirectTo(abs) ==
  Response(302, [abs |-> abs, host |-> IF abs THEN OtherHost ELSE <<>>, path |-> <<"dav">>], NoBody)

Home207 == Response(207, NoHref, [home |-> HomeHref, blocks |-> <<>>])

List207 == Response(207, NoHref, [home |-> NoHref, blocks |-> <<Block(HomeHref, TRUE), Block(ChildHref, TRUE)>>])

Plain(st) == Response(st, NoHref, NoBody)

Servers ==
  { [c \in Classes |->
       CASE c = "caldav" -> a1
         [] c = "calendars" -> a2
         [] c = ".well-known" -> a3
         [] c = "dav" -> a4
         [] c = "cal" -> a5
         [] OTHER -> a6] :
      a1 \in {Answers(Plain(404)), Fails},
      a2 \in {Answers(Plain(404)), Answers(Plain(207)), Answers(Plain(401))},
      a3 \in {Answers(Plain(404)), Answers(Home207), Answers(RedirectTo(FALSE)), Fails},
      a4 \in {Answers(Plain(207)), Answers(Home207), Answers(RedirectTo(TRUE)), Answers(Plain(401))},
      a5 \in {Answers(List207), Answers(Plain(404)), Fails},
      a6 \in {Answers(Home207), Answers(Plain(404)), Fails} }

\* The canned server answers the outstanding request.
CannedAnswer ==
  /\ disc.canned # <<>>
  /\ disc.pc \in {"direct", "wellknown", "home", "principal"}
  /\ LET a == disc.canned[1][Class(disc.url)]
     IN  IF a.fails
           THEN DirectFails \/ WellKnownFails \/ HomeFails \/ PrincipalFails
           ELSE \/ DirectAnswer(a.response)
                \/ WellKnownAnswer(a.response)
                \/ HomeAnswer(a.response)
                \/ PrincipalAnswer(a.response)

InitTwice == SyncInit /\ codec = CodecIdle /\ \E server \in Servers : disc = [DiscIdle EXCEPT !.canned = <<server>>]

NextTwice ==
  \/ \E serverHost \in ServerHosts : DiscoverCalendarUrl(serverHost)
  \/ CannedAnswer

SpecTwice == InitTwice /\ [][NextTwice]_vars

-----------------------------------------------------------------------------
\* Claims about the scheduler and the reconciliation engine.

\* C1: at no time are two executions of runCalDAVSync in flight: a timer firing
\* or a caldav:sync-now that arrives during a run starts no overlapping run.
C1_SingleFlight == BagCardinality(runs) <= 1

\* C2: no two rows of the tasks table hold the same non-empty caldav_uid.
C2_UniqueUid ==
  \A t1 \in tasks, t2 \in tasks :
    (t1.caldav_uid # "" /\ t1.caldav_uid = t2.caldav_uid) => t1.id = t2.id

\* The fetched entry is of a version of the resource older than version pv.
OlderThan(entry, pv) ==
  \E v \in 0..MaxVer : v < pv /\ entry.etag = ParseGetEtag(Quoted(VerToken(v)))

\* C3: a run never reverts a pushed change: when the push of task t has completed
\* (PUT accepted, its etag stored on t) and a run then merges an entry fetched
\* from the state before that push, the merge leaves the row of t as it is.
C3_NoRevert ==
  [][ \A q \in InFlight :
        RunMerged(q) =>
          \A t \in tasks : \A i \in DOMAIN q.resp :
            ( /\ q.resp[i].events[1].UID = t.caldav_uid
              /\ pushedVer[t.id] > 0
              /\ t.caldav_etag = PutEtag(Quoted(VerToken(pushedVer[t.id])))
              /\ OlderThan(q.resp[i], pushedVer[t.id]) )
            => t \in tasks' ]_vars

\* The row the lookup by caldav_uid yields for a merged event, if any.
Found(e) == SelectByUid(e.before, e.ev.UID)

\* The merge history is the history of the store: every event starts from the
\* store the one before it left, and the last one leaves the store as it is now.
LogIsStore ==
  /\ \A i \in DOMAIN mergeLog : i > 1 => mergeLog[i].before = mergeLog[i - 1].after
  /\ mergeLog # <<>> => mergeLog[Len(mergeLog)].after = tasks

ChangedCount == Cardinality({i \in DOMAIN mergeLog : mergeLog[i].changed})

\* C4: a fetched event whose uid matches a local task and whose etag equals the
\* task's stored etag causes no insert and no update, and adds 0 to the changed
\* count of the run.
C4_NoOp ==
  /\ LogIsStore
  /\ notified # <<>> /\ notified[1].channel = "caldav:synced" => notified[1].imported = ChangedCount
  /\ \A i \in DOMAIN mergeLog :
       LET e == mergeLog[i]
       IN  (Found(e) # {} /\ FirstRow(Found(e)).caldav_etag = e.etag)
             => (e.after = e.before /\ ~e.changed)

C4_Witness ==
  \E i \in DOMAIN mergeLog :
    LET e == mergeLog[i]
    IN  Found(e) # {} /\ FirstRow(Found(e)).caldav_etag = e.etag /\ e.before # {}

D_2024_01_15 == <<"2", "0", "2", "4", "-", "0", "1", "-", "1", "5">>

\* C5: a fetched event whose uid no local task holds makes the run insert exactly
\* one row, with title, description, date (the start value as YYYY-MM-DD) and
\* status (CANCELLED gives done, anything else pending) from the event and with
\* the event's uid and the entry's etag, and counts as one change.
C5_Create ==
  /\ LogIsStore
  /\ \A i \in DOMAIN mergeLog :
       LET e == mergeLog[i]
       IN  Found(e) = {} =>
             /\ e.changed
             /\ \E new \in e.after :
                  /\ e.after = e.before \cup {new}
                  /\ \A t \in e.before : t.id # new.id
                  /\ new.title = (IF e.ev.SUMMARY = "" THEN "(geen titel)" ELSE e.ev.SUMMARY)
                  /\ new.description = e.ev.DESCRIPTION
                  /\ Len(new.date) = 10 /\ new.date[5] = "-" /\ new.date[8] = "-"
                  /\ StripDashes(new.date) = SubSeq(e.ev.DTSTART, 1, 8)
                  /\ (e.ev.DTSTART = StripDashes(D_2024_01_15) => new.date = D_2024_01_15)
                  /\ new.status = "done" <=> e.ev.STATUS = "CANCELLED"
                  /\ new.status = "pending" <=> e.ev.STATUS # "CANCELLED"
                  /\ new.caldav_uid = e.ev.UID
                  /\ new.caldav_etag = e.etag

C5_Witness ==
  \E i \in DOMAIN mergeLog :
    LET e == mergeLog[i]
    IN  /\ Found(e) = {} /\ e.ev.STATUS = "CANCELLED" /\ e.ev.DTSTART = StripDashes(D_2024_01_15)
        /\ \E t \in tasks : t.caldav_uid = e.ev.UID /\ t.status = "done" /\ t.date = D_2024_01_15

\* C6: a fetched event whose uid matches a local task whose stored etag differs
\* from the entry's etag makes the run update that row's title, description,
\* date and status from the event and set its etag to the entry's, so that the
\* stored etag equals the fetched one afterwards, and counts as one change.
C6_Update ==
  /\ LogIsStore
  /\ \A i \in DOMAIN mergeLog :
       LET e == mergeLog[i]
       IN  (Found(e) # {} /\ FirstRow(Found(e)).caldav_etag # e.etag) =>
             /\ e.changed
             /\ \E t2 \in e.after :
                  /\ t2.id = FirstRow(Found(e)).id
                  /\ e.after \ {t2} = e.before \ {FirstRow(Found(e))}
                  /\ t2.title = (IF e.ev.SUMMARY = "" THEN "(geen titel)" ELSE e.ev.SUMMARY)
                  /\ t2.description = e.ev.DESCRIPTION
                  /\ StripDashes(t2.date) = SubSeq(e.ev.DTSTART, 1, 8)
                  /\ t2.status = "done" <=> e.ev.STATUS = "CANCELLED"
                  /\ t2.caldav_etag = e.etag

C6_Witness ==
  \E i \in DOMAIN mergeLog :
    LET e == mergeLog[i]
    IN  /\ Found(e) # {} /\ FirstRow(Found(e)).caldav_etag # e.etag
        /\ \E t \in tasks : t.caldav_uid = e.ev.UID /\ t.caldav_etag = e.etag

\* A step of a reconciliation run.
RunStep ==
  \/ RunCalDAVSync
  \/ \E q \in InFlight : RunDiscovered(q) \/ RunFailed(q) \/ ServerAnswersReport(q) \/ RunMerged(q)
  \/ \E q \in InFlight, status \in ReportStatuses :
       ServerRejectsFilter(q, status) \/ ServerRefusesReport(q, status)

\* C7: no reconciliation run deletes a local task, whatever was fetched: every
\* task present before a step of a run is present after it.
C7_NoDelete == [][RunStep => \A t \in tasks : \E t2 \in tasks' : t2.id = t.id]_vars

\* A run has just ended on a fetched set that lacks an event pulled earlier.
C7_Witness ==
  /\ notified # <<>> /\ notified[1].channel = "caldav:synced"
  /\ mergeLog = <<>>
  /\ \E t \in tasks : t.caldav_uid \in ForeignUids /\ ~remote[t.caldav_uid].present

-----------------------------------------------------------------------------
\* Claims about discovery.

Pending == {"direct", "wellknown", "home", "principal"}

\* C8: when a direct-pattern candidate answers 401, discoverCalendarUrl fails
\* with the authentication error and issues no further request.
C8_Direct401Aborts ==
  (disc.auth.n > 0 /\ disc.auth.pc = "direct")
    => (disc.pc = "thrown" /\ disc.error = AuthError /\ disc.n = disc.auth.n)

\* A direct candidate other than the first and the last answered 401.
C8_Witness ==
  /\ disc.auth.pc = "direct" /\ disc.auth.n > 1
  /\ disc.auth.n < Len(DirectCandidates(disc.host, Username))
  /\ disc.pc = "thrown" /\ disc.last.status = 401

\* C9: a 401 answer to any request of discovery makes discoverCalendarUrl fail
\* at once with the authentication error: no request follows the 401.
C9_Any401Aborts ==
  disc.auth.n > 0
    => (disc.pc = "thrown" /\ disc.error = AuthError /\ disc.n = disc.auth.n)

\* The latest answer neither succeeded nor was a 401.
PassedOver(d) ==
  \/ d.last.kind = "error"
  \/ d.last.kind = "status" /\ d.last.status \notin {207, 401}

\* The step asks the next candidate in the order of discovery.
AsksNext ==
  /\ disc'.n = disc.n + 1
  /\ \/ /\ disc.pc = "direct" /\ disc.i < Len(DirectCandidates(disc.host, Username))
        /\ disc'.pc = "direct" /\ disc'.i = disc.i + 1
        /\ disc'.url = DirectCandidates(disc.host, Username)[disc'.i]
     \/ /\ disc.pc = "direct" /\ disc.i = Len(DirectCandidates(disc.host, Username))
        /\ disc'.pc = "wellknown" /\ disc'.url = WellKnownUrl(disc.host)
     \/ /\ disc.pc = "wellknown" /\ disc'.pc = "wellknown" /\ disc'.i = disc.i + 1
     \/ /\ disc.pc = "wellknown" /\ disc'.pc = "home"
     \/ /\ disc.pc \in {"wellknown", "home"}
        /\ disc'.pc = "principal" /\ disc'.i = 1
        /\ disc'.url = PrincipalCandidates(disc.host, Username)[1]
     \/ /\ disc.pc = "principal" /\ disc'.pc = "principal" /\ disc'.i = disc.i + 1
        /\ disc'.url = PrincipalCandidates(disc.host, Username)[disc'.i]

\* C10: discovery tries direct probing, then the well-known chase, then the
\* principal lookup, each in list order; a candidate that answers a status other
\* than 207 or 401, or fails in transport, is passed over and the next is tried
\* (after the last one discovery fails); a candidate that succeeds has its URL
\* returned with no further request.
C10_Order ==
  [][ disc.pc \in Pending =>
        /\ disc'.n # disc.n => AsksNext
        /\ (disc.pc \in {"direct", "principal"} /\ PassedOver(disc')) =>
             \/ AsksNext
             \/ /\ disc.pc = "principal"
                /\ disc.i = Len(PrincipalCandidates(disc.host, Username))
                /\ disc'.pc = "thrown" /\ disc'.error.message = NotFoundMessage
                /\ disc'.n = disc.n
        /\ (disc.pc = "direct" /\ disc'.last.status = 207) =>
             (disc'.pc = "returned" /\ disc'.result = disc.url /\ disc'.n = disc.n) ]_vars

\* C11: in the principal strategy a calendar-home URL obtained from a candidate
\* is queried at depth 1 before anything is returned: the answer of a principal
\* candidate never ends the call with a URL; a URL is returned only on the
\* answer to the depth-1 query of the home.
C11_PrincipalQueriesHome ==
  [][ disc.pc = "principal" => disc'.pc # "returned" ]_vars

\* The last principal candidate was asked and the call ended without a URL.
Exhausted ==
  /\ disc.pc = "thrown"
  /\ disc.url = PrincipalCandidates(disc.host, Username)[Len(PrincipalCandidates(disc.host, Username))]

\* C12: when every strategy is exhausted, discoverCalendarUrl fails with one
\* error that names the server authority and carries the first three recorded
\* failure messages at most, in the order they were recorded, and returns no URL.
C12_ExhaustedError ==
  Exhausted =>
    /\ disc.result = NoUrl
    /\ disc.error.message = NotFoundMessage
    /\ disc.error.host = disc.host
    /\ Len(disc.error.details) <= 3
    /\ Len(disc.error.details) <= Len(disc.log)
    /\ Len(disc.log) >= 3 => Len(disc.error.details) = 3
    /\ Len(disc.log) < 3 => Len(disc.error.details) = Len(disc.log)
    /\ \A k \in DOMAIN disc.error.details : disc.error.details[k] = disc.log[k]

\* Exhausted without any 401, with more than three failures recorded.
C12_Witness == Exhausted /\ disc.auth.n = 0 /\ Len(disc.log) > 3

-----------------------------------------------------------------------------
\* Claims about fetch, push, delete and the configuration.

\* The run q is over, with an error that names the collection URL it asked.
FailsNamingUrl(q) ==
  /\ runs' = runs (-) SetToBag({q})
  /\ notified' # <<>> /\ notified'[1].channel = "caldav:error"
  /\ notified'[1].message.url = q.url

\* C18: fetchEvents sends two REPORTs at most: a 207 to the time-ranged query
\* returns its entries; only a first answer of 400, 403 or 501 is followed by one
\* query without time range to the same URL, whose entries are returned on 207;
\* in every other case nothing more is sent and the call fails with an error
\* that names the collection URL.
C18_FetchFallback ==
  [][ \A q \in InFlight :
        /\ ServerAnswersReport(q) =>
             runs' = Moved(q, [q EXCEPT !.pc = "answered", !.resp = FetchEvents(remote)])
        /\ \A status \in ReportStatuses :
             ServerRejectsFilter(q, status) =>
               (q.pc = "report" /\ status \in {400, 403, 501}
                 /\ \E q2 \in BagToSet(runs') : q2.pc = "report2" /\ q2.url = q.url)
        /\ \A status \in ReportStatuses :
             ServerRefusesReport(q, status) =>
               ((q.pc = "report2" \/ status \notin {400, 403, 501}) /\ FailsNamingUrl(q))
        /\ (q.pc \in {"report", "report2"} /\ RunFailed(q)) => FailsNamingUrl(q) ]_vars

\* The calls that start in a step: a run, a push or a delete.
Started ==
  { [pc |-> q.pc, url |-> q.url] :
      q \in { r \in BagToSet(runs') :
                /\ BagCardinality(runs') > BagCardinality(runs)
                /\ CopiesIn(r, runs') > CopiesIn(r, runs) } }
  \cup (IF push.pc = "idle" /\ push'.pc # "idle" THEN {[pc |-> push'.pc, url |-> push'.url]} ELSE {})
  \cup (IF del.pc = "idle" /\ del'.pc # "idle" THEN {[pc |-> del'.pc, url |-> del'.url]} ELSE {})

\* The URLs to which a step sends a REPORT, PUT or DELETE.
SentTo ==
  { q.url : q \in { r \in BagToSet(runs') :
                      r.pc \in {"report", "report2"} /\ CopiesIn(r, runs') > CopiesIn(r, runs) } }
  \cup (IF push.pc # "put" /\ push'.pc = "put" THEN {push'.url} ELSE {})
  \cup (IF del.pc # "delete" /\ del'.pc = "delete" THEN {del'.url} ELSE {})

\* C14: while a discovered URL is stored in the configuration, every
\* run, push and delete that starts issues no discovery request and uses the
\* stored URL.
C14_UsesStoredUrl ==
  [][ config.calendarUrl # "" =>
        \A c \in Started : c.pc # "discover" /\ c.url = config.calendarUrl ]_vars

\* C15: after caldav:save-config changed the server, no REPORT, PUT or DELETE is
\* sent to a collection URL discovered with the previous configuration, and the
\* stored cached URL is never one discovered with a configuration other than
\* the current one.
C15_NoStaleUrl ==
  [][ /\ config'.calendarUrl \in {"", DiscoveredUrl(config'.serverHost)}
      /\ \A u \in SentTo : u \in {config.calendarUrlOverride, DiscoveredUrl(config.serverHost)} ]_vars

\* C16: while an override URL is set, every run, push and delete that starts
\* issues no discovery request and addresses the override URL, whether or not a
\* discovered URL is cached too.
C16_OverrideBypasses ==
  [][ config.calendarUrlOverride # "" =>
        \A c \in Started : c.pc # "discover" /\ c.url = config.calendarUrlOverride ]_vars

\* A push addresses the override while a discovered URL is cached as well.
C16_Witness ==
  /\ push.pc = "put" /\ push.via = "override" /\ push.url = OverrideUrl
  /\ config.calendarUrl # "" /\ config.calendarUrlOverride = OverrideUrl

\* C17: the stored override changes only in a caldav:save-config call that
\* supplies an override value.
C17_OverrideKept ==
  [][ config'.calendarUrlOverride # config.calendarUrlOverride =>
        \E serverHost \in ConfigHosts, enabled \in BOOLEAN :
          SaveConfig(serverHost, enabled, OverrideUrl) ]_vars

\* The result of the caldav:delete-task call that ends in this step.
DeleteReply == notified'[1]

\* C19: caldav:delete-task succeeds exactly when the DELETE is answered 200, 204
\* or 404, also when the uid was deleted before; on any other status and on a
\* transport failure it fails with a reason.
C19_DeleteOutcome ==
  [][ /\ \A status \in DeleteStatuses :
           ServerAnswersDelete(status) =>
             /\ DeleteReply.channel = "caldav:delete-task"
             /\ DeleteReply.ok <=> status \in {200, 204, 404}
             /\ ~DeleteReply.ok => DeleteReply.error # ""
      /\ (del.pc = "delete" /\ DeleteFailed) =>
           (~DeleteReply.ok /\ DeleteReply.error # "") ]_vars

\* The delete of a uid the server no longer has was answered 404 and succeeded.
C19_Witness ==
  /\ notified # <<>> /\ notified[1].channel = "caldav:delete-task" /\ notified[1].ok
  /\ del.status = 404 /\ remote[del.uid].ver > 0 /\ ~remote[del.uid].present

\* The push that ends in this step succeeded: the server stored the resource.
PushSucceeded == push.pc = "answered" /\ push.ok

\* C20: caldav:push-task returns success and stamps the task with caldav_uid and
\* caldav_etag only when the push succeeded; on an error status of the PUT or a
\* transport failure it returns a failure with a reason and leaves the task's
\* caldav_uid and caldav_etag as they were.
C20_PushOutcome ==
  [][ (PushStamped \/ PushFailed) =>
        /\ notified'[1].ok <=> PushSucceeded
        /\ ~PushSucceeded =>
             /\ notified'[1].error # ""
             /\ \A t \in tasks : t.id = push.task =>
                  \E t2 \in tasks' : /\ t2.id = t.id
                                     /\ t2.caldav_uid = t.caldav_uid
                                     /\ t2.caldav_etag = t.caldav_etag ]_vars

-----------------------------------------------------------------------------
\* Claims about the timers, the last-run state and the notifications.

\* C21: while synchronisation is disabled no timer is pending: the interval
\* timer is cleared and no initial-delay timer remains that has not fired.
C21_TimersCancelled == ~config.enabled => (~calDavTimer /\ timeouts = 0)

\* A run ends in this step with an error of discovery, fetch or merge.
RunFails ==
  \E q \in InFlight :
    \/ RunFailed(q)
    \/ ServerRefusesReport(q, 500)
    \/ \E k \in 0..Cardinality(Uids) : RunMergeFailed(q, k)

\* A run ends in this step with its merge loop completed.
RunSucceeds == \E q \in InFlight : RunMerged(q)

\* C22: a run that fails in discovery, fetch or merge ends: it leaves the set of
\* runs in flight, its error is recorded in the last-run state, and the timers
\* stay as they were, the interval timer set whenever synchronisation is
\* enabled.
C22_SchedulerSurvives ==
  [][ RunFails =>
        /\ BagCardinality(runs') = BagCardinality(runs) - 1
        /\ lastSync'.error # NoMessage
        /\ UNCHANGED <<calDavTimer, timeouts>>
        /\ config'.enabled => calDavTimer' ]_vars

\* After a failure in the merge loop a later timer tick has started a run.
C22_Witness ==
  /\ lastSync.error = StoreError
  /\ calDavTimer
  /\ \E q \in InFlight : q.pc = "report"

\* C23: the step that ends a run sends exactly one notification to the window:
\* caldav:synced with the time of the run and the number of rows the merge loop
\* wrote when the run succeeded, caldav:error with the recorded message when it
\* failed.
C23_OneNotification ==
  [][ /\ RunSucceeds =>
           /\ Len(notified') = 1
           /\ notified'[1].channel = "caldav:synced"
           /\ notified'[1].time = lastSync'.time /\ lastSync'.time = "this"
           /\ notified'[1].imported =
                Cardinality({i \in DOMAIN mergeLog' : mergeLog'[i].after # mergeLog'[i].before})
      /\ RunFails =>
           /\ Len(notified') = 1
           /\ notified'[1].channel = "caldav:error"
           /\ notified'[1].message = lastSync'.error ]_vars

\* C24: the step that ends a run leaves a last-run state that describes that
\* run: the time is the time of that run, and the error is null exactly when the
\* run succeeded.
C24_DescribesLastRun ==
  [][ (RunSucceeds \/ RunFails) =>
        /\ lastSync'.time = "this"
        /\ lastSync'.error = NoMessage <=> RunSucceeds ]_vars

\* C25: every run that has started completes: whenever a run is in flight, a
\* state with no run in flight follows, also when the server leaves a request
\* unanswered.
C25_RunsComplete == (runs # EmptyBag) ~> (runs = EmptyBag)

-----------------------------------------------------------------------------
\* SpecCodec: one event goes through generateICS and parseICS, and what
\* parseICS returns through the merge loop; or the text of another client does.

\* Characters of titles and descriptions: the ones escICS escapes, the letter n
\* and one more letter.
CodecAlphabet == {Backslash, ";", ",", Newline, "n", "a"}

\* Length of the titles.
MaxTitle == 2

\* Length of the descriptions.
MaxDescription == 1

Strings(len) == UNION {[1..k -> CodecAlphabet] : k \in 0..len}

LocalStatuses == {"pending", "in_progress", "done"}

Years == {2023, 2024}

ValidDates == {DateString(y, m, d) : y \in Years, m \in 1..12, d \in 1..28}
              \cup UNION {{DateString(y, m, d) : d \in 29..DaysInMonth(y, m)} : y \in Years, m \in 1..12}

\* The argument of generateICS (main.js:346-352).
CodecEvents ==
  { [uid |-> <<PmUid(1)>>, title |-> t, description |-> de, date |-> D_2024_01_15, status |-> st] :
      t \in Strings(MaxTitle) \ {<<>>}, de \in Strings(MaxDescription), st \in LocalStatuses }
  \cup
  { [uid |-> <<PmUid(1)>>, title |-> <<"a">>, description |-> <<>>, date |-> d, status |-> "pending"] :
      d \in ValidDates }

\* What other clients write: an event with any protocol status or none, with or
\* without a UID.
ProtocolStatuses == {"CANCELLED", "CONFIRMED", "TENTATIVE", ""}

ForeignTexts ==
  { ForeignText(ForeignBlock(uid, [EvA EXCEPT !.STATUS = st])) :
      uid \in {"", "u1"}, st \in ProtocolStatuses }

InitCodec ==
  /\ SyncInit /\ disc = DiscIdle
  /\ \/ \E event \in CodecEvents : codec = [CodecIdle EXCEPT !.pc = "event", !.event = event]
     \/ \E text \in ForeignTexts : codec = [CodecIdle EXCEPT !.pc = "text", !.text = text]

\* main.js:346-352: generateICS
Generate ==
  /\ codec.pc = "event"
  /\ codec' = [codec EXCEPT !.pc = "text", !.text = GenerateICSText(codec.event)]
  /\ NoMerge
  /\ UNCHANGED <<config, tasks, nextId, remote, runs, push, lastSync, pushedVer, disc, del, appVars>>

\* main.js:211: parseICS
Parse ==
  /\ codec.pc = "text"
  /\ codec' = [codec EXCEPT !.pc = "parsed", !.events = ParseICS(codec.text)]
  /\ NoMerge
  /\ UNCHANGED <<config, tasks, nextId, remote, runs, push, lastSync, pushedVer, disc, del, appVars>>

\* main.js:212-215: the events of the entry go through syncRemoteEvent.
Merge ==
  /\ codec.pc = "parsed"
  /\ LET m == MergeEvents([store |-> tasks, nid |-> nextId, imported |-> 0, log |-> <<>>],
                          [i \in DOMAIN codec.events |-> IcsEvent(codec.events[i])], <<"1">>)
     IN  /\ tasks' = m.store
         /\ nextId' = m.nid
  /\ codec' = [codec EXCEPT !.pc = "merged"]
  /\ NoMerge
  /\ UNCHANGED <<config, remote, runs, push, lastSync, pushedVer, disc, del, appVars>>

NextCodec == Generate \/ Parse \/ Merge

SpecCodec == InitCodec /\ [][NextCodec]_vars

\* The event has been generated and parsed back.
RoundTrip == codec.event # <<>> /\ codec.pc \in {"parsed", "merged"}

\* C26: parseICS of the text generateICS made of an event returns one event,
\* with the uid and the title of the event, a STATUS that is CANCELLED exactly
\* when the event is done, and a DTSTART that parseDTSTART reads as the date.
C26_RoundTrip ==
  RoundTrip =>
    /\ Len(codec.events) = 1
    /\ LET ev == codec.events[1]
       IN  /\ ev.UID = codec.event.uid
           /\ ev.SUMMARY = codec.event.title
           /\ (ev.STATUS = <<"CANCELLED">>) = (codec.event.status = "done")
           /\ ParseDTSTART(ev.DTSTART) = codec.event.date

\* Days from a fixed day to the date y-m-d, the year counted from March.
DayNumber(y, m, d) ==
  LET yy == IF m <= 2 THEN y - 1 ELSE y
      mm == IF m > 2 THEN m - 3 ELSE m + 9
  IN  365 * yy + (yy \div 4) - (yy \div 100) + (yy \div 400) + ((153 * mm + 2) \div 5) + d - 1

\* The eight characters after a property's name and parameter in the text.
DateValue(text, name) ==
  LET at == IndexOf(text, <<name, ";", "VALUE=DATE", ":">>, 1)
  IN  IF at = 0 THEN <<>> ELSE SubSeq(text, at + 4, at + 11)

DayNumberOf(val) ==
  DayNumber(NumberOf(SubSeq(val, 1, 4)), NumberOf(SubSeq(val, 5, 6)), NumberOf(SubSeq(val, 7, 8)))

\* C27: the text generateICS makes of an event with date d has the all-day
\* start d and the all-day end the calendar day after d.
C27_AllDay ==
  codec.event # <<>> /\ codec.pc # "event" =>
    LET start == DateValue(codec.text, "DTSTART")
        end   == DateValue(codec.text, "DTEND")
    IN  /\ start = StripDashes(codec.event.date)
        /\ Len(end) = 8
        /\ NumberOf(SubSeq(end, 5, 6)) \in 1..12
        /\ NumberOf(SubSeq(end, 7, 8)) \in 1..DaysInMonth(NumberOf(SubSeq(end, 1, 4)), NumberOf(SubSeq(end, 5, 6)))
        /\ DayNumberOf(end) = DayNumberOf(start) + 1

\* The event of the last day of a year has its end on the first of the next.
C27_Witness ==
  /\ codec.pc = "text" /\ codec.event # <<>>
  /\ codec.event.date = DateString(2024, 12, 31)
  /\ DateValue(codec.text, "DTEND") = StripDashes(DateString(2025, 1, 1))

\* C29: the text generateICS makes has STATUS CANCELLED if the event is done and
\* STATUS CONFIRMED otherwise; the row the merge writes for a parsed event is
\* done if its STATUS is CANCELLED and pending otherwise, also with no STATUS.
C29_StatusMapping ==
  /\ codec.event # <<>> /\ codec.pc # "event" =>
       /\ (IndexOf(codec.text, <<"STATUS", ":", "CANCELLED">>, 1) # 0) <=> (codec.event.status = "done")
       /\ (IndexOf(codec.text, <<"STATUS", ":", "CONFIRMED">>, 1) # 0) <=> (codec.event.status # "done")
  /\ codec.pc = "merged" =>
       \A i \in DOMAIN codec.events :
         \E t \in tasks :
           /\ t.caldav_uid = Text(codec.events[i].UID)
           /\ t.status = IF codec.events[i].STATUS = <<"CANCELLED">> THEN "done" ELSE "pending"

\* An event in progress was generated as CONFIRMED and merged as pending.
C29_Witness ==
  /\ codec.pc = "merged"
  /\ codec.event # <<>> /\ codec.event.status = "in_progress"
  /\ \E t \in tasks : t.caldav_uid = PmUid(1) /\ t.status = "pending"

-----------------------------------------------------------------------------
\* Claims about malformed records.

\* The events of the fetched entries, in the order of the merge loop.
RECURSIVE EventsOf(_)
EventsOf(entries) ==
  IF entries = <<>> THEN <<>> ELSE Head(entries).events \o EventsOf(Tail(entries))

\* The entry fetchEvents returned for the resource u.
EntryOf(resp, u) == CHOOSE e \in {resp[k] : k \in DOMAIN resp} : e.href = u

\* C28: a remote entry whose body has no event block, or only blocks without
\* UID, yields no event, so it writes nothing and raises no error; of a body
\* with a block without UID and one with it only the latter is an event. The run
\* merges exactly the uid-bearing events of all entries, writes no row without
\* uid, leaves the store alone when no entry has an event, and ends as a
\* success.
C28_MalformedSkipped ==
  [][\A q \in InFlight :
       /\ ServerAnswersReport(q) =>
            \A u \in Uids : remote[u].present =>
              LET q2     == CHOOSE r \in BagToSet(runs') : r.pc = "answered"
                  events == EntryOf(q2.resp, u).events
              IN  CASE remote[u].ev.blocks \in {"none", "nouid"} -> events = <<>>
                    [] remote[u].ev.blocks = "nouid+uid" ->
                         Len(events) = 1 /\ events[1].UID = u
                    [] OTHER -> Len(events) = 1 /\ events[1].UID = u
       /\ RunMerged(q) =>
            LET events == EventsOf(q.resp)
            IN  /\ lastSync' = LastSync("this", NoMessage)
                /\ notified'[1].channel = "caldav:synced"
                /\ [i \in DOMAIN mergeLog' |-> mergeLog'[i].ev] = events
                /\ \A i \in DOMAIN events :
                     /\ events[i].UID # ""
                     /\ SelectByUid(tasks', events[i].UID) # {}
                /\ {t \in tasks' : t.caldav_uid = ""} \subseteq tasks
                /\ \A t \in tasks' \ tasks :
                     \E i \in DOMAIN events : t.caldav_uid = events[i].UID
                /\ events = <<>> => (tasks' = tasks /\ notified'[1].imported = 0)
    ]_vars

\* A run has merged a collection whose first resource, written once, has only a
\* block without UID, and whose second has a block without UID before one with
\* it: one event was merged, that of the second.
C28_Witness ==
  /\ runs = EmptyBag /\ lastSync = LastSync("this", NoMessage)
  /\ remote["u1"].present /\ remote["u1"].ver = 1 /\ remote["u1"].ev.blocks = "nouid"
  /\ remote[PmUid(1)].present /\ remote[PmUid(1)].ev.blocks = "nouid+uid"
  /\ Len(mergeLog) = 1 /\ mergeLog[1].ev.UID = PmUid(1) /\ mergeLog[1].changed
  /\ SelectByUid(tasks, "u1") = {}
  /\ SelectByUid(tasks, PmUid(1)) # {}

-----------------------------------------------------------------------------
\* Claims about the length of discovery.

\* An answer or a transport failure reaches the outstanding request.
DiscAnswered ==
  \/ \E r \in Responses : DirectAnswer(r) \/ WellKnownAnswer(r) \/ HomeAnswer(r) \/ PrincipalAnswer(r)
  \/ DirectFails \/ WellKnownFails \/ HomeFails \/ PrincipalFails

\* The requests of a call by strategy, read from the index of the outstanding
\* one and the number issued so far: direct probes, well-known hops, depth-1
\* queries, principal queries.
RequestsBounded ==
  CASE disc.pc = "direct" -> disc.i <= 5 /\ disc.n = disc.i
    [] disc.pc = "wellknown" -> disc.i + 1 <= 5 /\ disc.n - (disc.i + 1) <= 5
    [] disc.pc = "home" -> disc.i + 1 <= 5 /\ disc.n - (disc.i + 1) - 1 <= 5
    [] disc.pc = "principal" -> disc.i <= 4 /\ disc.n - disc.i <= 5 + 5 + 1
    [] OTHER -> disc.n <= 5 + 5 + 1 + 4

\* C30: a call of discoverCalendarUrl issues at most 5 direct probes, 5
\* well-known hops and one depth-1 query, and 4 principal queries; every answer
\* either ends the call or is followed by exactly one more request, so the call
\* ends after at most 15 answers; the well-known chase goes on to another hop
\* only on 301, 302 or 308 with a Location, and on any other answer leaves the
\* chase.
C30_DiscoveryBounded ==
  [][/\ RequestsBounded /\ RequestsBounded'
     /\ DiscAnswered =>
          \/ disc'.pc \in {"returned", "thrown"} /\ disc'.n = disc.n
          \/ disc'.pc \in Pending /\ disc'.n = disc.n + 1
     /\ \A r \in Responses :
          WellKnownAnswer(r) =>
            LET follows == r.status \in {301, 302, 308} /\ r.location # NoHref
            IN  /\ disc'.pc = "wellknown" => (follows /\ disc'.i = disc.i + 1)
                /\ (follows /\ disc.i + 1 < 5) => disc'.pc = "wellknown"
                /\ (follows /\ disc.i + 1 = 5) => disc'.pc = "principal"
    ]_vars

\* An endless redirect cycle: the fifth request of the chase was answered with
\* a redirect too, after five direct probes, and the first principal query is
\* out.
C30_Witness ==
  /\ disc.pc = "principal" /\ disc.i = 1 /\ disc.n = 5 + 5 + 1
  /\ disc.last.kind = "status" /\ disc.last.status \in Redirects

-----------------------------------------------------------------------------
\* Claims about the answers discovery reads.

\* C31: when a hop of the well-known chase is answered with a redirect whose
\* Location is relative and the chase goes on, the next request goes to the
\* host of the URL that returned the redirect.
C31_RelativeStaysOnHop ==
  [][\A r \in Responses :
       (/\ WellKnownAnswer(r)
        /\ r.status \in Redirects /\ r.location # NoHref /\ ~r.location.abs
        /\ disc'.pc = "wellknown")
       => disc'.url.host = disc.url.host
    ]_vars

-----------------------------------------------------------------------------
\* The scanning of PROPFIND answers (caldav.js:464-526 and 728-732). A body is
\* a sequence of items: a tag is one item, except that the word calendar is an
\* item of its own wherever it stands; text between tags is a sequence of
\* words.

CalendarWord == "calendar"

\* The items a tag starts with: no text matched by [^<] holds one.
TagStarts ==
  { "<D:multistatus>", "</D:multistatus>", "<D:response>", "</D:response>",
    "<D:href>", "</D:href>", "<D:propstat>", "</D:propstat>", "<D:prop>", "</D:prop>",
    "<D:resourcetype>", "</D:resourcetype>", "<D:collection/>", "<C:", "<CR:addressbook/>",
    "<D:displayname>", "</D:displayname>", "<D:current-user-principal>",
    "</D:current-user-principal>", "<C:calendar-home-set>", "<C:calendar-home-set/>",
    "</C:calendar-home-set>" }

\* The least member of a set of indices, 0 if it is empty.
First(at) == IF at = {} THEN 0 ELSE CHOOSE i \in at : \A j \in at : i <= j

\* String.prototype.trim on a sequence of words.
RECURSIVE Trim(_)
Trim(t) ==
  IF t = <<>> THEN t
  ELSE IF Head(t) = " " THEN Trim(Tail(t))
  ELSE IF t[Len(t)] = " " THEN Trim(SubSeq(t, 1, Len(t) - 1))
  ELSE t

\* The text after the tag at index i up to the next tag, if that tag is the
\* closing one: the capture of <...tag...>([^<]*)</...tag> matched at i.
CaptureAt(xml, i, close) ==
  LET end == First({j \in (i + 1)..Len(xml) : xml[j] \in TagStarts})
  IN  IF end # 0 /\ xml[end] = close THEN [found |-> TRUE, text |-> SubSeq(xml, i + 1, end - 1)]
      ELSE [found |-> FALSE, text |-> <<>>]

\* caldav.js:728-732 xmlText(xml, 'href'): the first href element whose content
\* has no tag, trimmed; '' if there is none.
XmlTextHref(xml) ==
  LET at == First({i \in DOMAIN xml : /\ xml[i] \in {"<D:href>", "</D:href>"}
                                       /\ CaptureAt(xml, i, "</D:href>").found})
  IN  IF at = 0 THEN <<>> ELSE Trim(CaptureAt(xml, at, "</D:href>").text)

\* The scan were of the whole body, as xmlText(res.body, 'href') is.
HomeSetBlock_WholeBody(body) == [found |-> TRUE, text |-> body]

\* caldav.js:477 and 491: the first match of
\* /<[^:>]*:?calendar-home-set[^>]*>([\s\S]*?)<\/[^:>]*:?calendar-home-set>/i .
\* The opening part of the pattern matches a self-closed and a closing tag too.
HomeSetBlock(body) ==
  LET closes(i) == {j \in (i + 1)..Len(body) : body[j] = "</C:calendar-home-set>"}
      at == First({i \in DOMAIN body :
                     /\ body[i] \in {"<C:calendar-home-set>", "<C:calendar-home-set/>",
                                      "</C:calendar-home-set>"}
                     /\ closes(i) # {}})
  IN  IF at = 0 THEN [found |-> FALSE, text |-> <<>>]
      ELSE [found |-> TRUE, text |-> SubSeq(body, at + 1, First(closes(at)) - 1)]

\* href.startsWith('http')
StartsWithHttp(href) == href # <<>> /\ Head(href) = "https://"

\* `${u.protocol}//${u.host}${href}`
OnHost(host, href) == <<"https://", host>> \o href

\* caldav.js:464-484 getCalendarHomeFromPrincipal, from the answer on: the home
\* URL, or <<>> for null.
CalendarHomeOf(status, body, baseHost) ==
  IF status # 207 THEN <<>>
  ELSE LET calHomeBlock == HomeSetBlock(body)
           href == XmlTextHref(calHomeBlock.text)
       IN  IF ~calHomeBlock.found THEN <<>>
           ELSE IF href = <<>> THEN <<>>
           ELSE IF StartsWithHttp(href) THEN href ELSE OnHost(baseHost, href)

\* String.prototype.split at the items of seps.
RECURSIVE SplitAt(_, _)
SplitAt(t, seps) ==
  LET at == First({i \in DOMAIN t : t[i] \in seps})
  IN  IF at = 0 THEN <<t>>
      ELSE <<SubSeq(t, 1, at - 1)>> \o SplitAt(SubSeq(t, at + 1, Len(t)), seps)

\* caldav.js:512: res.body.split(/<[^:>]*:?response[^>]*>/i).slice(1); the
\* pattern matches the closing tag of a response as well as the opening one.
ResponseBlocks(body) == Tail(SplitAt(body, {"<D:response>", "</D:response>"}))

\* caldav.js:517-519: the first href element of a block with a content of at
\* least one character and no tag, trimmed; found is whether there is one.
BlockHref(block) ==
  LET at == First({i \in DOMAIN block :
                     /\ block[i] \in {"<D:href>", "</D:href>"}
                     /\ CaptureAt(block, i, "</D:href>").found
                     /\ CaptureAt(block, i, "</D:href>").text # <<>>})
  IN  IF at = 0 THEN [found |-> FALSE, text |-> <<>>]
      ELSE [found |-> TRUE, text |-> Trim(CaptureAt(block, at, "</D:href>").text)]

\* caldav.js:516: block.includes('calendar')
HasCalendar(block) == Includes(block, <<CalendarWord>>)

\* caldav.js:515-524: whether the loop returns at this block.
Qualifies(block, homeHost, homePathname) ==
  /\ HasCalendar(block)
  /\ BlockHref(block).found
  /\ BlockHref(block).text # homePathname
  /\ BlockHref(block).text # OnHost(homeHost, homePathname)

\* caldav.js:503-526 firstCalendarCollection, from the answer on; the home URL
\* is https://homeHost followed by homePathname.
FirstCalendarCollectionOf(homeHost, homePathname, status, body) ==
  LET blocks == ResponseBlocks(body)
      at     == First({k \in DOMAIN blocks : Qualifies(blocks[k], homeHost, homePathname)})
  IN  IF status # 207 THEN OnHost(homeHost, homePathname)
      ELSE IF at = 0 THEN OnHost(homeHost, homePathname)
      ELSE IF StartsWithHttp(BlockHref(blocks[at]).text) THEN BlockHref(blocks[at]).text
      ELSE OnHost(homeHost, BlockHref(blocks[at]).text)

-----------------------------------------------------------------------------
\* SpecXml: the answer of a server to the PROPFIND of a principal goes through
\* getCalendarHomeFromPrincipal, or its answer to the depth-1 PROPFIND of a home
\* through firstCalendarCollection.

XmlHost == "dav.nl"

HrefElement(href) == <<"<D:href>">> \o href \o <<"</D:href>">>

\* The answers to the PROPFIND of a principal: with or without the principal's
\* own href before the properties and the href of another property after them;
\* with no calendar-home-set element, an empty one, a self-closed one, or one
\* that holds a relative or an absolute href.
HomeSets == {"none", "empty", "selfclosed", "relative", "absolute"}

HomeHrefText(homeSet) ==
  IF homeSet = "absolute" THEN <<"https://", "cal.nl", "/cal/home/">> ELSE <<"/cal/home/">>

PrincipalAnswers ==
  [status : {207, 404}, before : BOOLEAN, homeSet : HomeSets, after : BOOLEAN]

PrincipalBody(a) ==
  <<"<D:multistatus>", "<D:response>">>
  \o (IF a.before THEN HrefElement(<<"/principals/u/">>) ELSE <<>>)
  \o <<"<D:propstat>", "<D:prop>">>
  \o (CASE a.homeSet = "none" -> <<>>
         [] a.homeSet = "empty" -> <<"<C:calendar-home-set>", "</C:calendar-home-set>">>
         [] a.homeSet = "selfclosed" -> <<"<C:calendar-home-set/>">>
         [] OTHER -> <<"<C:calendar-home-set>", " ">> \o HrefElement(HomeHrefText(a.homeSet))
                     \o <<" ", "</C:calendar-home-set>">>)
  \o (IF a.after
        THEN <<"<D:current-user-principal>">> \o HrefElement(<<"/principals/u/">>)
             \o <<"</D:current-user-principal>">>
        ELSE <<>>)
  \o <<"</D:prop>", "</D:propstat>", "</D:response>", "</D:multistatus>">>

\* The answers to the depth-1 PROPFIND of a home: up to MaxBlocks response
\* blocks, each the home itself, a calendar, an address book, or a plain
\* collection, with a display name.
MaxBlocks == 3

HomePathnames == { <<"/cal/home/">>, <<"/", CalendarWord, "s/u/">> }

ResponseKinds == {"home", "work", "personal", "contacts", "inbox"}

\* The block of a kind under the home: its href, whether its resource type is
\* calendar, and its display name.
ResponseOf(kind, homePathname) ==
  CASE kind = "home" -> [href |-> homePathname, calendar |-> FALSE, name |-> <<"Home">>]
    [] kind = "work" -> [href |-> homePathname \o <<"work/">>, calendar |-> TRUE, name |-> <<"Work">>]
    [] kind = "personal" ->
         [ href |-> OnHost(XmlHost, homePathname \o <<"personal/">>), calendar |-> TRUE,
           name |-> <<"Personal">> ]
    [] kind = "contacts" ->
         [href |-> homePathname \o <<"contacts/">>, calendar |-> FALSE, name |-> <<"Contacts">>]
    [] OTHER ->
         [ href |-> homePathname \o <<"inbox/">>, calendar |-> FALSE,
           name |-> <<"Shared ", CalendarWord, " invitations">> ]

ResponseText(b) ==
  <<"<D:response>">> \o HrefElement(b.href)
  \o <<"<D:propstat>", "<D:prop>", "<D:resourcetype>", "<D:collection/>">>
  \o (IF b.calendar THEN <<"<C:", CalendarWord, "/>">> ELSE <<>>)
  \o <<"</D:resourcetype>", "<D:displayname>">> \o b.name
  \o <<"</D:displayname>", "</D:prop>", "</D:propstat>", "</D:response>">>

RECURSIVE Concat(_)
Concat(texts) == IF texts = <<>> THEN <<>> ELSE Head(texts) \o Concat(Tail(texts))

ListingBody(blocks) ==
  <<"<D:multistatus>">> \o Concat([k \in DOMAIN blocks |-> ResponseText(blocks[k])])
  \o <<"</D:multistatus>">>

Listings ==
  { [status |-> st, pathname |-> h, blocks |-> [k \in DOMAIN kinds |-> ResponseOf(kinds[k], h)]] :
      st \in {207, 404}, h \in HomePathnames,
      kinds \in {ks \in UNION {[1..n -> ResponseKinds] : n \in 0..MaxBlocks} :
                   \A i, j \in DOMAIN ks : i # j => ks[i] # ks[j]} }

InitXml ==
  /\ SyncInit /\ disc = DiscIdle
  /\ \/ \E a \in PrincipalAnswers :
          codec = [pc |-> "principal", event |-> a, text |-> PrincipalBody(a), events |-> <<>>]
     \/ \E l \in Listings :
          codec = [pc |-> "listing", event |-> l, text |-> ListingBody(l.blocks), events |-> <<>>]

\* caldav.js:464-484
ScanPrincipal ==
  /\ codec.pc = "principal"
  /\ codec' = [codec EXCEPT !.pc = "home",
                            !.events = CalendarHomeOf(codec.event.status, codec.text, XmlHost)]
  /\ NoMerge
  /\ UNCHANGED <<config, tasks, nextId, remote, runs, push, lastSync, pushedVer, disc, del, appVars>>

\* caldav.js:503-526
ScanListing ==
  /\ codec.pc = "listing"
  /\ codec' = [codec EXCEPT !.pc = "collection",
                            !.events = FirstCalendarCollectionOf(XmlHost, codec.event.pathname,
                                                                 codec.event.status, codec.text)]
  /\ NoMerge
  /\ UNCHANGED <<config, tasks, nextId, remote, runs, push, lastSync, pushedVer, disc, del, appVars>>

NextXml == ScanPrincipal \/ ScanListing

SpecXml == InitXml /\ [][NextXml]_vars

\* C32: getCalendarHomeFromPrincipal yields a home URL only from the href
\* inside the calendar-home-set element of a 207 answer: none when the answer
\* has no such element or an empty one, whatever other hrefs it holds, and never
\* the href that stands before the element.
C32_HomeFromHomeSet ==
  codec.pc = "home" =>
    LET a == codec.event
    IN  IF a.status = 207 /\ a.homeSet \in {"relative", "absolute"}
          THEN codec.events = (IF a.homeSet = "absolute" THEN HomeHrefText(a.homeSet)
                               ELSE OnHost(XmlHost, HomeHrefText(a.homeSet)))
          ELSE codec.events = <<>>

\* A 207 answer with an href before and after an empty calendar-home-set
\* element gave no home.
C32_Witness ==
  /\ codec.pc = "home" /\ codec.event.status = 207
  /\ codec.event.before /\ codec.event.after /\ codec.event.homeSet = "empty"
  /\ codec.events = <<>>

\* C33: firstCalendarCollection returns the first block, in the order of the
\* answer, whose resource type is calendar and whose href is not the home; a
\* block of another resource type is never returned; the home is returned when
\* no block qualifies or the answer is not a 207.
C33_FirstCalendarCollection ==
  codec.pc = "collection" =>
    LET l      == codec.event
        home   == OnHost(XmlHost, l.pathname)
        abs(h) == IF StartsWithHttp(h) THEN h ELSE OnHost(XmlHost, h)
        at     == First({k \in DOMAIN l.blocks :
                           l.blocks[k].calendar /\ abs(l.blocks[k].href) # home})
    IN  codec.events = (IF l.status # 207 \/ at = 0 THEN home ELSE abs(l.blocks[at].href))

-----------------------------------------------------------------------------
\* Claims about runs that follow one another.

\* C34: a run that completes after an earlier run has completed on the same
\* fetched entries, with no local change in between, writes nothing to the
\* store and reports 0 changes.
C34_Idempotent ==
  [][\A q \in InFlight :
       (RunMerged(q) /\ lastSync = LastSync("this", NoMessage))
       => (tasks' = tasks /\ notified'[1].imported = 0)
    ]_vars

\* C35: a run that merges the resource a push of a task wrote, the resource not
\* having been written since, leaves the row of the task as it is: the etag the
\* push stored is the etag the fetch reports.
C35_PushedUnchanged ==
  [][\A q \in InFlight :
       RunMerged(q) =>
         \A t \in tasks :
           (/\ t.caldav_uid # "" /\ t.id \in DOMAIN pushedVer /\ pushedVer[t.id] > 0
            /\ remote[t.caldav_uid].present /\ remote[t.caldav_uid].ver = pushedVer[t.id]
            /\ \E k \in DOMAIN q.resp :
                 /\ q.resp[k].href = t.caldav_uid
                 /\ q.resp[k].etag = VerToken(pushedVer[t.id]))
           => t \in tasks'
    ]_vars

\* C36: a task with a caldav_uid that the user deleted is not inserted again by
\* a later run while the remote event is as it was. In SpecUndelete the remote
\* calendar is the same for every run and only the dialog removes rows, so once
\* a run has completed a remote event without a row is one whose task the user
\* deleted.
C36_DeletedStaysDeleted ==
  [][\A q \in InFlight :
       (RunMerged(q) /\ lastSync = LastSync("this", NoMessage))
       => \A u \in Uids :
            (remote[u].present /\ SelectByUid(tasks, u) = {}) => SelectByUid(tasks', u) = {}
    ]_vars

\* The UIDs of the events a resource of the remote calendar holds.
UidsAt(u) ==
  IF remote[u].present
    THEN {ParsedEntries[u, remote[u].ev][i].UID : i \in DOMAIN ParsedEntries[u, remote[u].ev]}
    ELSE {}

\* C37: a push never leaves the remote calendar with two resources that hold
\* an event of the same UID: the push of a pulled task writes the resource the
\* task was pulled from.
C37_OneResourcePerUid ==
  \A u1, u2 \in Uids : u1 # u2 => UidsAt(u1) \cap UidsAt(u2) = {}

-----------------------------------------------------------------------------
\* Claims about the timers of the scheduler.

\* C38: however often the scheduler is started, at most one initial-delay timer
\* is pending (the interval timer is one handle, cleared before it is set
\* again).
C38_OneTimerEach == timeouts <= 1

-----------------------------------------------------------------------------
\* Claims about what a run leaves alone.

\* C39: an event that updates a task changes only the title, description, date,
\* status and caldav_etag of the row the lookup returned: the id, the caldav_uid
\* and the other columns of that row stay, and so does every other row.
C39_UpdateFrame ==
  /\ LogIsStore
  /\ \A i \in DOMAIN mergeLog :
       LET e == mergeLog[i]
       IN  (Found(e) # {} /\ e.changed) =>
             LET t == FirstRow(Found(e))
             IN  \E t2 \in e.after :
                   /\ t2.id = t.id
                   /\ \A f \in DOMAIN t \ {"title", "description", "date", "status", "caldav_etag"} :
                        t2[f] = t[f]
                   /\ e.after \ {t2} = e.before \ {t}
                   /\ Cardinality(e.after) = Cardinality(e.before)

\* A task the user made, with its priority, was updated by a run.
C39_Witness ==
  \E i \in DOMAIN mergeLog :
    LET e == mergeLog[i]
    IN  /\ Found(e) # {} /\ e.changed
        /\ FirstRow(Found(e)).created_by = "user" /\ FirstRow(Found(e)).priority = "high"
        /\ \E t2 \in tasks :
             /\ t2.id = FirstRow(Found(e)).id /\ t2.caldav_etag = e.etag
             /\ t2.created_by = "user" /\ t2.priority = "high"
             /\ t2 # FirstRow(Found(e))

\* A run ends in a failure of discovery or of the fetch.
RunFailsBeforeMerge ==
  \E q \in InFlight :
    \/ RunFailed(q)
    \/ \E status \in ReportStatuses : ServerRefusesReport(q, status)

\* C40: the step in which a run fails in discovery or fetch leaves the store
\* and the cached URL as they are; no step of a run writes the store but the
\* merge of a fetched answer, so a run that fails before it has written no
\* task; and no step of a run writes the cached URL but the return of a
\* successful discovery.
C40_FailureLeavesStore ==
  [][/\ RunFailsBeforeMerge => UNCHANGED <<tasks, nextId, config>>
     /\ (RunStep /\ <<tasks, nextId>>' # <<tasks, nextId>>) => \E q \in InFlight : RunMerged(q)
     /\ (RunStep /\ config' # config) =>
          \E q \in InFlight : RunDiscovered(q) /\ config'.calendarUrl = DiscoveredUrl(q.host)
    ]_vars

\* A run has failed with tasks in the store and a URL in the cache.
C40_Witness ==
  /\ runs = EmptyBag /\ lastSync.error # NoMessage
  /\ tasks # {} /\ config.calendarUrl # ""

\* C40 as it is worded: when a run that had to discover its URL (the cache was
\* empty when it started) fails in discovery or fetch, the cache is empty as it
\* was before the run.
C40_CacheAsBeforeRun ==
  [][\A q \in InFlight :
       (/\ q.via = "discovery"
        /\ \/ RunFailed(q)
           \/ \E status \in ReportStatuses : ServerRefusesReport(q, status))
       => config'.calendarUrl = ""
    ]_vars
====
